---------------------------- MODULE Spec2Model ----------------------------
(***************************************************************************)
(* Model of the multiple-shooting SQP solver of ocs2                       *)
(* (ocs2_sqp/src/MultipleShootingSolver.cpp).                              *)
(*                                                                         *)
(* Numbers.  scalar_t values are modelled by integers with exact           *)
(* arithmetic.  The step size alpha and the factors alpha_decay,           *)
(* alpha_min, gamma_c and armijoFactor are fractions with the fixed        *)
(* denominator One (the integer One stands for 1.0); a comparison that     *)
(* involves a product of such fractions is written with both sides         *)
(* multiplied by the denominators, so no comparison is rounded.            *)
(* std::sqrt rounds to a representable value; here it rounds down to the   *)
(* integer grid (Sqrt).  vector_t values have dimension 1 (a sequence of   *)
(* one integer) or 0 (the empty sequence, the input of an event node).     *)
(***************************************************************************)
EXTENDS Integers, Sequences, FiniteSets, TLC

\* ------------------------------------------------------------------------
\* Bounds of the model
\* ------------------------------------------------------------------------

\* finalTime is drawn from 0..MaxFinalTime (the node spacing dt is 1)
MaxFinalTime == 2

\* term objects are created (added terms and their clones) up to MaxObjects
MaxObjects == 7

\* a solver makes at most MaxRuns runs
MaxRuns == 2

\* settings_.nThreads is drawn from 1..MaxThreads in the sweep specification
MaxThreads == 2

\* ------------------------------------------------------------------------
\* Scalars and vectors
\* ------------------------------------------------------------------------

\* the representation of the scalar 1.0 (alpha = 1.0, and 1.0 - gamma_c)
One == 8

Abs(a) == IF a < 0 THEN -a ELSE a

\* std::sqrt of a non-negative scalar, rounded down to the grid
Sqrt(n) == CHOOSE r \in 0..n : r * r <= n /\ (r + 1) * (r + 1) > n

RECURSIVE SumSeq(_)
SumSeq(s) == IF s = <<>> THEN 0 ELSE Head(s) + SumSeq(Tail(s))

\* Eigen: v.squaredNorm(), a.dot(b), a + b, c * a on vectors of equal size
SquaredNorm(v) == SumSeq([k \in 1..Len(v) |-> v[k] * v[k]])

Dot(a, b) == SumSeq([k \in 1..Len(a) |-> a[k] * b[k]])

VecAdd(a, b) == [k \in 1..Len(a) |-> a[k] + b[k]]

VecSub(a, b) == [k \in 1..Len(a) |-> a[k] - b[k]]

\* alpha * v for the fraction alpha = a / One
ScaleByFraction(a, v) == [k \in 1..Len(v) |-> (a * v[k]) \div One]

\* ------------------------------------------------------------------------
\* PerformanceIndex
\* ------------------------------------------------------------------------

Perf(m, c, e, s, q, p) ==
    [merit |-> m, totalCost |-> c, stateEqConstraintISE |-> e,
     stateInputEqConstraintISE |-> s, inequalityConstraintISE |-> q,
     inequalityConstraintPenalty |-> p]

\* PerformanceIndex(): all fields zero
ZeroPerf == Perf(0, 0, 0, 0, 0, 0)

\* PerformanceIndex::operator+= : field-wise sum
PerfAdd(a, b) ==
    Perf(a.merit + b.merit, a.totalCost + b.totalCost,
         a.stateEqConstraintISE + b.stateEqConstraintISE,
         a.stateInputEqConstraintISE + b.stateInputEqConstraintISE,
         a.inequalityConstraintISE + b.inequalityConstraintISE,
         a.inequalityConstraintPenalty + b.inequalityConstraintPenalty)

\* The sums of node performances a worker can have accumulated when it has
\* processed every node of a sweep.
WorkerPerformanceSet ==
    { ZeroPerf,
      Perf(0, 1, 0, 0, 0, 0),
      Perf(0, 2, 1, 0, 0, 0),
      Perf(0, 1, 4, 0, 0, 1),
      Perf(0, 1, 1, 1, 7, 0),
      Perf(0, 0, 16, 0, 0, 0) }


\* ------------------------------------------------------------------------
\* Time discretization
\* ------------------------------------------------------------------------

AnnotatedTime(t, e) == [time |-> t, event |-> e]

\* timeDiscretizationWithEvents with dt = 1: the nodes initTime, initTime+1,
\* ..., finalTime; every event time strictly inside (initTime, finalTime)
\* appears as a PreEvent node directly followed by a PostEvent node.
RECURSIVE GridFrom(_, _, _, _)
GridFrom(t, initTime, finalTime, eventTimes) ==
    IF t > finalTime THEN <<>>
    ELSE (IF t > initTime /\ t < finalTime /\ \E k \in 1..Len(eventTimes) : eventTimes[k] = t
          THEN <<AnnotatedTime(t, "PreEvent"), AnnotatedTime(t, "PostEvent")>>
          ELSE <<AnnotatedTime(t, "None")>>)
         \o GridFrom(t + 1, initTime, finalTime, eventTimes)

timeDiscretizationWithEvents(initTime, finalTime, eventTimes) ==
    GridFrom(initTime, initTime, finalTime, eventTimes)

\* getIntervalStart / getIntervalEnd of a node: its time
getIntervalStart(node) == node.time

getIntervalEnd(node) == node.time

\* the event times the reference manager's mode schedule can hold
EventTimesSet == { <<>>, <<1>> }

\* ------------------------------------------------------------------------
\* Settings
\* ------------------------------------------------------------------------

\* The settings a solver is constructed with.  alpha_decay, alpha_min,
\* gamma_c and armijoFactor are numerators over One; g_max, g_min, costTol
\* and deltaTol are scalars in the unit of the performance values.
BaseSettings ==
    [ sqpIteration |-> 2, alpha_decay |-> 4, alpha_min |-> 1, gamma_c |-> 1,
      g_max |-> 3, g_min |-> 2, costTol |-> 1, deltaTol |-> 1, armijoFactor |-> 1,
      useFeedbackPolicy |-> FALSE, projectStateInputEqualityConstraints |-> FALSE,
      nThreads |-> 1 ]

SettingsSet ==
    { BaseSettings,
      [BaseSettings EXCEPT !.sqpIteration = 1, !.useFeedbackPolicy = TRUE],
      [BaseSettings EXCEPT !.sqpIteration = 1, !.gamma_c = 4, !.costTol = 2],
      [BaseSettings EXCEPT !.sqpIteration = 1, !.deltaTol = 9, !.alpha_min = 4],
      [BaseSettings EXCEPT !.sqpIteration = 1, !.alpha_min = One] }

\* ------------------------------------------------------------------------
\* State of the solver
\* ------------------------------------------------------------------------

VARIABLES
    pc,                     \* position of the caller in run / runImpl
    settings_,              \* MultipleShootingSolver::settings_
    primalSolution_,        \* MultipleShootingSolver::primalSolution_
    performanceIndeces_,    \* the iteration log
    totalNumIterations_,    \* iterations since construction or reset()
    dynamics_, cost_, constraints_, constraintsProjection_,
                            \* the per-node approximation buffers
    initState,              \* argument of runImpl
    timeDiscretization,     \* local of runImpl
    x, u,                   \* the iterate (locals of runImpl)
    iter,                   \* loop counter of runImpl
    baselinePerformance,    \* local of runImpl
    deltaSolution,          \* local of runImpl (OcpSubproblemSolution)
    alpha,                  \* local of takeStep (numerator over One)
    trial,                  \* the last line-search trial of takeStep
    stepInfo,               \* what takeStep returned
    ocpDefinitions_         \* the problem clones, one for each worker

\* State of a parallel sweep (setupQuadraticSubproblem / computePerformance)
VARIABLES
    sweep,                  \* which sweep runs, and how far it is
    nodePerformance,        \* what the evaluation of each node returns
    timeIndex,              \* std::atomic_int timeIndex
    worker,                 \* per task: position, local i, workerPerformance
    performance,            \* std::vector<PerformanceIndex> performance
    access,                 \* which task touched which object (history)
    totalPerformance        \* the value the sweep returns

\* What the solver shares with, or gets from, its surroundings
VARIABLES
    referenceManager,       \* the shared ReferenceManager (its mode schedule)
    runArgs,                \* initTime, finalTime and the local eventTimes of the current run
    environment,            \* the user's functions and the QP solver
    history                 \* the runs made so far (observer's record)

envVars == <<referenceManager, runArgs, environment, history>>

\* A Collection<T> (ocs2_core/misc/Collection.h) and what its user holds
VARIABLES
    terms_,                 \* Collection::terms_, the terms in the order they were added
    termNameMap_,           \* Collection::termNameMap_, name -> index in terms_ (from 0)
    copy,                   \* the collection returned by the last clone()
    outcome,                \* the last call of add, get or clone and how it returned
    added,                  \* the names and terms of the adds that returned
    allocated               \* number of term objects created so far

collectionVars == <<terms_, termNameMap_, copy, outcome, added, allocated>>

\* MultipleShootingSolver::hpipmInterface_: the constraints argument of the
\* solve of the iteration in progress, or of the solve that threw
\* ("constraints_" for &constraints_, "nullptr", "unset" when there is none)
VARIABLE hpipmInterface_

sweepVars == <<sweep, nodePerformance, timeIndex, worker, performance, access,
               totalPerformance>>

solverVars == <<pc, ocpDefinitions_, settings_, primalSolution_, performanceIndeces_, totalNumIterations_,
                dynamics_, cost_, constraints_, constraintsProjection_, initState,
                timeDiscretization, x, u, iter, baselinePerformance, deltaSolution,
                alpha, trial, stepInfo, hpipmInterface_>>

vars == <<solverVars, sweepVars, envVars, collectionVars>>

\* PrimalSolution(): empty trajectories, no controller
EmptyPrimalSolution ==
    [timeTrajectory_ |-> <<>>, stateTrajectory_ |-> <<>>, inputTrajectory_ |-> <<>>,
     modeSchedule_ |-> <<>>,
     controller |-> [type |-> "none", timeStamp |-> <<>>, bias |-> <<>>, gain |-> <<>>]]

NoTrial == [alpha |-> 0, performanceNew |-> ZeroPerf, stepAccepted |-> FALSE, tried |-> FALSE]

NoSolution == [deltaXSol |-> <<>>, deltaUSol |-> <<>>, armijoDescentMetric |-> 0]

NoQp == [constraints |-> "unset"]

NoStep == [converged |-> FALSE, performance |-> ZeroPerf, returned |-> FALSE]

NoAccess == [dynamics |-> <<>>, cost |-> <<>>, constraints |-> <<>>,
             constraintsProjection |-> <<>>, ocpDefinition |-> <<>>,
             performance |-> <<>>, node |-> <<>>]

\* no sweep is running
SweepIdle ==
    /\ sweep = [kind |-> "none", phase |-> "idle"]
    /\ nodePerformance = <<>>
    /\ timeIndex = 0
    /\ worker = <<>>
    /\ performance = <<>>
    /\ access = NoAccess
    /\ totalPerformance = ZeroPerf

NoArgs == [initTime |-> 0, finalTime |-> 0, eventTimes |-> <<>>]

\* user functions and a QP solver about which nothing is assumed: every
\* evaluation can return any value of the sets below
FreeEnvironment ==
    [deterministic |-> FALSE, sign |-> 0, d |-> 0, e |-> 0,
     failFrom |-> 0, failure |-> "SUCCESS", gain |-> 0,
     optimalControlProblem |-> [equalityConstraintEmpty |-> TRUE]]

\* no run has been made; the solver is as the constructor (or reset) left it
NoHistory == [runs |-> <<>>, fresh |-> TRUE, userProjection |-> FALSE]

\* a reference manager whose mode schedule nobody changes, and user
\* functions about which nothing is assumed
EnvInit ==
    /\ referenceManager \in [eventTimes : EventTimesSet]
    /\ runArgs = NoArgs
    /\ environment = FreeEnvironment
    /\ history = NoHistory

\* the empty map
NoMap == [name \in {} |-> 0]

NoCollection == [terms_ |-> <<>>, termNameMap_ |-> NoMap]

NoOutcome == [call |-> "none", name |-> "", threw |-> "none", value |-> <<>>]

\* Collection() = default
CollectionInit ==
    /\ terms_ = <<>>
    /\ termNameMap_ = NoMap
    /\ copy = NoCollection
    /\ outcome = NoOutcome
    /\ added = <<>>
    /\ allocated = 0

\* Clone objects to have one for each worker
CloneProblem(optimalControlProblem, nThreads) ==
    [w \in 1..nThreads |-> optimalControlProblem]

\* the state after MultipleShootingSolver::MultipleShootingSolver
SolverInit ==
    /\ pc = "idle"
    /\ settings_ \in SettingsSet
    /\ ocpDefinitions_ = CloneProblem(environment.optimalControlProblem, settings_.nThreads)
    /\ primalSolution_ = EmptyPrimalSolution
    /\ performanceIndeces_ = <<>>
    /\ totalNumIterations_ = 0
    /\ dynamics_ = <<>>
    /\ cost_ = <<>>
    /\ constraints_ = <<>>
    /\ constraintsProjection_ = <<>>
    /\ initState = <<0>>
    /\ timeDiscretization = <<>>
    /\ x = <<>>
    /\ u = <<>>
    /\ iter = 0
    /\ baselinePerformance = ZeroPerf
    /\ deltaSolution = NoSolution
    /\ alpha = One
    /\ trial = NoTrial
    /\ stepInfo = NoStep
    /\ hpipmInterface_ = NoQp


\* ------------------------------------------------------------------------
\* initializeStateInputTrajectories
\* ------------------------------------------------------------------------

Last(s) == s[Len(s)]

\* LinearInterpolation::interpolate at a node time: the value stored at the
\* first node that is not earlier than t (the last node when t is later)
InterpolateAt(t, times, values) ==
    LET later == { k \in 1..Len(times) : times[k] >= t }
        k == IF later = {} THEN Len(times)
             ELSE CHOOSE j \in later : \A l \in later : j <= l
    IN values[k]

\* ControllerBase::computeInput of the stored controller
ComputeInput(sol, t, state) ==
    IF sol.controller.type = "LinearController"
    THEN LET b == InterpolateAt(t, sol.controller.timeStamp, sol.controller.bias)
             K == InterpolateAt(t, sol.controller.timeStamp, sol.controller.gain)
         IN [k \in 1..Len(b) |-> b[k] + K * state[k]]
    ELSE InterpolateAt(t, sol.controller.timeStamp, sol.controller.bias)

\* multiple_shooting::initializeIntermediateNode(primalSolution, ...)
InitializeFromSolution(sol, t, nextTime, state, useController) ==
    [input |-> IF useController THEN ComputeInput(sol, t, state)
               ELSE InterpolateAt(t, sol.timeTrajectory_, sol.inputTrajectory_),
     nextState |-> InterpolateAt(nextTime, sol.timeTrajectory_, sol.stateTrajectory_)]

\* multiple_shooting::initializeIntermediateNode(initializer, ...): the
\* initializer holds the state with zero input
InitializeFromInitializer(t, nextTime, state) ==
    [input |-> <<0>>, nextState |-> state]

\* multiple_shooting::initializeEventNode
initializeEventNode(t, state) == state

\* the body of the loop over i = 0..N-1 (node i is grid[i + 1])
RECURSIVE InitializeLoop(_, _, _, _, _)
InitializeLoop(i, grid, interpolateTill, stateTrajectory, inputTrajectory) ==
    IF i >= Len(grid) - 1
    THEN [stateTrajectory |-> stateTrajectory, inputTrajectory |-> inputTrajectory]
    ELSE IF grid[i + 1].event = "PreEvent"
         THEN InitializeLoop(i + 1, grid, interpolateTill,
                  Append(stateTrajectory, initializeEventNode(grid[i + 1].time, Last(stateTrajectory))),
                  Append(inputTrajectory, <<>>))
         ELSE LET time == getIntervalStart(grid[i + 1])
                  nextTime == getIntervalEnd(grid[i + 2])
                  r == IF time < interpolateTill
                       THEN InitializeFromSolution(primalSolution_, time, nextTime,
                                                   Last(stateTrajectory), i = 0)
                       ELSE InitializeFromInitializer(time, nextTime, Last(stateTrajectory))
              IN InitializeLoop(i + 1, grid, interpolateTill,
                     Append(stateTrajectory, r.nextState), Append(inputTrajectory, r.input))

\* totalNumIterations_ > 0 while no primal solution is stored (a run threw
\* after its first iteration): timeTrajectory_.back() reads outside the
\* storage
BackOfEmptyTimeTrajectory ==
    totalNumIterations_ > 0 /\ primalSolution_.timeTrajectory_ = <<>>

\* an initialization whose first state is taken from the previous solution
\* when there is one, not from initState
initializeStateInputTrajectories_FirstFromSolution(state0, grid) ==
    LET warm == totalNumIterations_ > 0 /\ ~BackOfEmptyTimeTrajectory
        sol == primalSolution_
        interpolateTill == IF warm THEN Last(sol.timeTrajectory_) ELSE grid[1].time
        first == IF warm
                 THEN InterpolateAt(grid[1].time, sol.timeTrajectory_, sol.stateTrajectory_)
                 ELSE state0
    IN InitializeLoop(0, grid, interpolateTill, <<first>>, <<>>)

\* when the read outside the storage yields a value, it is taken to be one
\* that selects the initializer
initializeStateInputTrajectories(state0, grid) ==
    LET interpolateTill == IF totalNumIterations_ > 0 /\ ~BackOfEmptyTimeTrajectory
                           THEN Last(primalSolution_.timeTrajectory_)
                           ELSE grid[1].time
    IN InitializeLoop(0, grid, interpolateTill, <<state0>>, <<>>)

\* ------------------------------------------------------------------------
\* setupQuadraticSubproblem / computePerformance with one worker
\* ------------------------------------------------------------------------

RECURSIVE SumPerf(_)
SumPerf(s) == IF s = <<>> THEN ZeroPerf ELSE PerfAdd(Head(s), SumPerf(Tail(s)))

\* the total with the defect of the initial state added to every accumulator
TotalPerformance_DefectPerThread(accumulators, state0, xs) ==
    LET defect == SquaredNorm(VecSub(state0, xs[1]))
        total == [SumPerf(accumulators) EXCEPT !.stateEqConstraintISE =
                      @ + Len(accumulators) * defect]
    IN [total EXCEPT !.merit = total.totalCost + total.inequalityConstraintPenalty]

\* The total of a sweep: the worker sums the nodes it processed, the
\* initial-state defect is added to the first accumulator, the accumulators
\* are summed and the merit is set.
TotalPerformance(accumulators, state0, xs) ==
    LET front == [accumulators[1] EXCEPT !.stateEqConstraintISE =
                      @ + SquaredNorm(VecSub(state0, xs[1]))]
        total == PerfAdd(front, SumPerf(Tail(accumulators)))
    IN [total EXCEPT !.merit = total.totalCost + total.inequalityConstraintPenalty]

\* computePerformance with a merit that adds the equality-constraint ISEs
computePerformance_MeritWithViolation(workerPerformance, state0, xs) ==
    LET total == TotalPerformance(<<PerfAdd(ZeroPerf, workerPerformance)>>, state0, xs)
    IN [total EXCEPT !.merit = @ + total.stateEqConstraintISE
                                 + total.stateInputEqConstraintISE]

\* computePerformance run by a single worker (nThreads = 1), which has
\* accumulated workerPerformance over the nodes 0..N
computePerformance(workerPerformance, state0, xs) ==
    TotalPerformance(<<PerfAdd(ZeroPerf, workerPerformance)>>, state0, xs)


\* ------------------------------------------------------------------------
\* runImpl: start of a run
\* ------------------------------------------------------------------------

\* runImpl(initTime, initState, finalTime, ...) up to the first
\* iteration: time discretization from the event times of the reference
\* manager, initial trajectories, cleared log
runImplStart(initTime, state0, finalTime) ==
    /\ initState' = state0
    /\ runArgs' = [initTime |-> initTime, finalTime |-> finalTime,
                    eventTimes |-> referenceManager.eventTimes]
    /\ LET eventTimes == referenceManager.eventTimes
           grid == timeDiscretizationWithEvents(initTime, finalTime, eventTimes)
           traj == initializeStateInputTrajectories(state0, grid)
       IN \/ /\ timeDiscretization' = grid
             /\ x' = traj.stateTrajectory
             /\ u' = traj.inputTrajectory
             /\ performanceIndeces_' = <<>>
             /\ iter' = 0
             /\ pc' = "iterate"
          \/ /\ BackOfEmptyTimeTrajectory
             /\ pc' = "crashed"
             /\ timeDiscretization' = grid
             /\ UNCHANGED <<x, u, performanceIndeces_, iter>>
    /\ hpipmInterface_' = NoQp
    /\ UNCHANGED <<collectionVars, sweepVars, referenceManager, environment, ocpDefinitions_,
                   settings_, primalSolution_, totalNumIterations_, dynamics_, cost_,
                   constraints_, constraintsProjection_, baselinePerformance,
                   deltaSolution, alpha, trial, stepInfo>>

\* the record of the run that has ended, added to the history; fresh tells
\* whether the next run starts from a solver that was just reset
Archive(fresh) ==
    [history EXCEPT
        !.runs = Append(@, [args |-> runArgs,
                            eventTimes |-> referenceManager.eventTimes,
                            log |-> performanceIndeces_,
                            solution |-> primalSolution_,
                            fresh |-> history.fresh,
                            outcome |-> pc]),
        !.fresh = fresh]

\* the first run of a solver, or a run after reset()
Run(finalTime) ==
    /\ pc = "idle"
    /\ Len(history.runs) < MaxRuns
    /\ runImplStart(0, initState, finalTime)
    /\ UNCHANGED history

\* a further run of a solver that has returned from, or thrown in, a run
Rerun(initTime, state0, finalTime) ==
    /\ pc \in {"done", "threw"}
    /\ Len(history.runs) + 1 < MaxRuns
    /\ history' = Archive(FALSE)
    /\ runImplStart(initTime, state0, finalTime)

\* reset() without the clearing of the solution and of the iteration count
reset_KeepsSolution ==
    [primalSolution_ |-> primalSolution_, performanceIndeces_ |-> <<>>,
     totalNumIterations_ |-> totalNumIterations_]

\* the members reset() assigns
reset ==
    [primalSolution_ |-> EmptyPrimalSolution, performanceIndeces_ |-> <<>>,
     totalNumIterations_ |-> 0]

\* reset() is called between runs
Reset ==
    /\ pc \in {"idle", "done", "threw"}
    /\ primalSolution_' = reset.primalSolution_
    /\ performanceIndeces_' = reset.performanceIndeces_
    /\ totalNumIterations_' = reset.totalNumIterations_
    /\ history' = IF pc = "idle" THEN history ELSE Archive(TRUE)
    /\ pc' = "idle"
    /\ hpipmInterface_' = NoQp
    /\ UNCHANGED <<collectionVars, sweepVars, referenceManager, runArgs, environment, ocpDefinitions_,
                   settings_, dynamics_, cost_, constraints_, constraintsProjection_,
                   initState, timeDiscretization, x, u, iter, baselinePerformance,
                   deltaSolution, alpha, trial, stepInfo>>

\* ------------------------------------------------------------------------
\* The constructor
\* ------------------------------------------------------------------------

\* settings_ as the constructor leaves it, without the rule for projection
ConstructedSettings_AsGiven(settings, optimalControlProblem) == settings

\* settings_ as the constructor leaves it: True does not make sense if there
\* are no constraints
ConstructedSettings(settings, optimalControlProblem) ==
    [settings EXCEPT !.projectStateInputEqualityConstraints =
         IF optimalControlProblem.equalityConstraintEmpty THEN FALSE ELSE @]

\* MultipleShootingSolver(settings, optimalControlProblem, initializer)
Construct(settings) ==
    /\ pc = "new"
    /\ settings_' = ConstructedSettings(settings, environment.optimalControlProblem)
    /\ ocpDefinitions_' = CloneProblem(environment.optimalControlProblem, settings.nThreads)
    /\ history' = [history EXCEPT
                      !.userProjection = settings.projectStateInputEqualityConstraints]
    /\ pc' = "idle"
    /\ UNCHANGED <<hpipmInterface_, collectionVars, sweepVars, referenceManager, runArgs, environment, primalSolution_,
                   performanceIndeces_, totalNumIterations_, dynamics_, cost_,
                   constraints_, constraintsProjection_, initState, timeDiscretization,
                   x, u, iter, baselinePerformance, deltaSolution, alpha, trial, stepInfo>>

\* ------------------------------------------------------------------------
\* setupQuadraticSubproblem
\* ------------------------------------------------------------------------

\* gradients of the user's cost the node approximations can return
GradientSet == { -1, 1 }

\* the empty projection: VectorFunctionLinearApproximation with f.size() = 0
NoProjection == [f |-> <<>>, dfdx |-> 0, dfdu |-> 0]

IsEventNode(grid, i) == grid[i + 1].event = "PreEvent"

\* What the approximation of node i (setupEventNode, setupIntermediateNode,
\* setupTerminalNode) stores in the buffers; g is the gradient of the cost.
NodeDynamics(grid, i) == IF IsEventNode(grid, i) THEN "jump" ELSE "flow"

NodeCost(grid, i, g) ==
    [dfdx |-> <<g>>,
     dfdu |-> IF i < Len(grid) - 1 /\ ~IsEventNode(grid, i) THEN <<g>> ELSE <<>>]

NodeConstraints(grid, i) == "constraints"

\* setupIntermediateNode with projection builds a projection of the input
\* (du = dfdu * du_tilde + dfdx * dx + f); an event node has none
NodeProjection(grid, i) ==
    IF settings_.projectStateInputEqualityConstraints /\ ~IsEventNode(grid, i)
    THEN [f |-> <<One>>, dfdx |-> 1, dfdu |-> 1]
    ELSE NoProjection

\* a missing resize
Resize_None(buffer, n) == buffer

\* std::vector::resize: the first n elements are kept, new ones are default
Resize(buffer, n) == [i \in 1..n |-> IF i <= Len(buffer) THEN buffer[i] ELSE "default"]

\* entries of the step the QP solver can return (multiples of One, so that
\* every trial iterate x + alpha * dx is on the grid)
DeltaSet == { 0, One }

HpipmStatusSet == { "SUCCESS", "MAX_ITER", "INFEASIBLE", "NUMERICAL_FAILURE" }

\* feedback gains the QP solver's Riccati recursion can return
GainSet == { 0, 1 }

\* Deterministic user functions and a deterministic QP solver: the cost of an
\* iterate is sign * (sum of its state and input entries), its gradient is
\* sign; the QP solver fails with `failure' when the sum of the states it is
\* linearised at reaches failFrom, and returns the step entries d and e
\* otherwise; the Riccati gain is `gain' at every node.
StateSum(xs) == SumSeq([i \in 1..Len(xs) |-> SumSeq(xs[i])])

UserPerformance(xs, us) ==
    Perf(0, environment.sign * (StateSum(xs) + StateSum(us)), 0, 0, 0, 0)

\* what the evaluation of all nodes at the iterate (xs, us) can sum up to
PerformanceAnswers(xs, us) ==
    IF environment.deterministic THEN {UserPerformance(xs, us)} ELSE WorkerPerformanceSet

\* what performance.front() and std::accumulate can yield when the vector
\* of accumulators is empty (nThreads = 0): reads outside the storage
GarbagePerformanceSet == { ZeroPerf, Perf(0, 1, 4, 0, 0, 1) }

\* what a sweep over all nodes at the iterate (xs, us) can return
SweepAnswers(xs, us) ==
    IF settings_.nThreads = 0 THEN GarbagePerformanceSet ELSE PerformanceAnswers(xs, us)

GradientAnswers ==
    IF environment.deterministic THEN {environment.sign} ELSE GradientSet

\* what hpipmInterface_.solve can return for the subproblem at xs
StatusAnswers(xs) ==
    IF environment.deterministic
    THEN {IF StateSum(xs) >= environment.failFrom THEN environment.failure ELSE "SUCCESS"}
    ELSE HpipmStatusSet

DeltaXAnswers == IF environment.deterministic THEN {environment.d} ELSE DeltaSet

DeltaUAnswers == IF environment.deterministic THEN {environment.e} ELSE DeltaSet

\* what hpipmInterface_.getRiccatiFeedback can return for N nodes
GainAnswers(N) ==
    IF environment.deterministic THEN {[i \in 1..N |-> environment.gain]}
    ELSE [1..N -> GainSet]

\* One SQP iteration starts (loop test of runImpl) and the quadratic
\* subproblem is set up at the iterate: the buffers are resized to N, N+1,
\* N+1, N, every node is approximated and the baseline is summed.
SetupQuadraticSubproblem ==
    /\ pc = "iterate"
    /\ iter < settings_.sqpIteration
    /\ LET N == Len(timeDiscretization) - 1
       IN \E workerPerformance \in SweepAnswers(x, u), g \in GradientAnswers :
            /\ dynamics_' = [i \in 1..N |-> NodeDynamics(timeDiscretization, i - 1)]
            /\ cost_' = [i \in 1..(N + 1) |-> NodeCost(timeDiscretization, i - 1, g)]
            /\ constraints_' = [i \in 1..(N + 1) |-> NodeConstraints(timeDiscretization, i - 1)]
            /\ constraintsProjection_' = [i \in 1..N |-> NodeProjection(timeDiscretization, i - 1)]
            /\ baselinePerformance' = computePerformance(workerPerformance, initState, x)
    /\ pc' = "solve"
    /\ UNCHANGED <<hpipmInterface_, collectionVars, sweepVars, envVars, ocpDefinitions_, settings_, primalSolution_, performanceIndeces_, totalNumIterations_,
                   initState, timeDiscretization, x, u, iter, deltaSolution, alpha,
                   trial, stepInfo>>

\* With nThreads = 0 there is no accumulator and no problem clone:
\* performance.front() in setupQuadraticSubproblem and computePerformance and
\* ocpDefinitions_.front() in getOCPSolution are reads outside the storage,
\* which can stop the process.
CrashOnEmptyVector ==
    /\ settings_.nThreads = 0
    /\ \/ pc = "iterate" /\ iter < settings_.sqpIteration
       \/ pc \in {"solve", "linesearch"}
    /\ pc' = "crashed"
    /\ UNCHANGED <<hpipmInterface_, collectionVars, sweepVars, envVars, ocpDefinitions_, settings_, primalSolution_,
                   performanceIndeces_, totalNumIterations_, dynamics_, cost_,
                   constraints_, constraintsProjection_, initState, timeDiscretization,
                   x, u, iter, baselinePerformance, deltaSolution, alpha, trial, stepInfo>>

\* ------------------------------------------------------------------------
\* getOCPSolution
\* ------------------------------------------------------------------------

\* gradient(cost)' * [dx; du], summed over the nodes
ArmijoDescentMetric(cost, deltaXSol, deltaUSol) ==
    SumSeq([i \in 1..Len(cost) |->
              (IF Len(cost[i].dfdx) > 0 THEN Dot(cost[i].dfdx, deltaXSol[i]) ELSE 0)
            + (IF Len(cost[i].dfdu) > 0 THEN Dot(cost[i].dfdu, deltaUSol[i]) ELSE 0)])

\* remap the tilde delta u to real delta u
ExpandProjection(projection, deltaXSol, deltaUSol) ==
    [i \in 1..Len(deltaUSol) |->
        IF Len(projection[i].f) > 0
        THEN [k \in 1..Len(projection[i].f) |->
                 projection[i].dfdu * deltaUSol[i][k] + projection[i].f[k]
                 + projection[i].dfdx * deltaXSol[i][k]]
        ELSE deltaUSol[i]]

\* getOCPSolution with the descent metric computed after the remap
getOCPSolution_MetricAfterRemap(deltaXSol, deltaUSol) ==
    LET remapped == IF settings_.projectStateInputEqualityConstraints
                    THEN ExpandProjection(constraintsProjection_, deltaXSol, deltaUSol)
                    ELSE deltaUSol
    IN [deltaXSol |-> deltaXSol,
        deltaUSol |-> remapped,
        armijoDescentMetric |-> ArmijoDescentMetric(cost_, deltaXSol, remapped)]

\* getOCPSolution on what the QP solver returned: the descent metric is
\* computed first, the remap of the input step follows
getOCPSolution(deltaXSol, deltaUSol) ==
    [deltaXSol |-> deltaXSol,
     deltaUSol |-> IF settings_.projectStateInputEqualityConstraints
                   THEN ExpandProjection(constraintsProjection_, deltaXSol, deltaUSol)
                   ELSE deltaUSol,
     armijoDescentMetric |-> ArmijoDescentMetric(cost_, deltaXSol, deltaUSol)]

\* the constraints are handed to the QP solver whenever there are some
QpConstraints_WheneverPresent(hasStateInputConstraints) ==
    IF hasStateInputConstraints THEN "constraints_" ELSE "nullptr"

\* the constraints argument of hpipmInterface_.solve
QpConstraints(hasStateInputConstraints) ==
    IF hasStateInputConstraints /\ ~settings_.projectStateInputEqualityConstraints
    THEN "constraints_"
    ELSE "nullptr"

\* !ocpDefinitions_.front().equalityConstraintPtr->empty(); without a clone
\* front() reads outside the storage and either value can result
HasStateInputConstraintsSet ==
    IF ocpDefinitions_ = <<>> THEN BOOLEAN
    ELSE { ~ocpDefinitions_[1].equalityConstraintEmpty }

StatusThrows_Never(status) == FALSE

\* if (status != hpipm_status::SUCCESS) throw std::runtime_error(...)
StatusThrows(status) == status # "SUCCESS"

\* The QP is solved: the solver fails (run throws), or returns a step whose
\* first state entry is delta_x0 = initState - x[0]; an event node has no
\* input step.  takeStep then starts its line search at alpha = 1.0.
SolveQP ==
    /\ pc = "solve"
    /\ \E hasStateInputConstraints \in HasStateInputConstraintsSet :
          hpipmInterface_' = [constraints |-> QpConstraints(hasStateInputConstraints)]
    /\ \E status \in StatusAnswers(x), d \in DeltaXAnswers, e \in DeltaUAnswers :
         IF StatusThrows(status)
         THEN /\ pc' = "threw"
              /\ UNCHANGED <<deltaSolution, alpha, trial>>
         ELSE LET N == Len(timeDiscretization) - 1
                  delta_x0 == VecSub(initState, x[1])
                  deltaXSol == [i \in 1..(N + 1) |-> IF i = 1 THEN delta_x0 ELSE <<d>>]
                  deltaUSol == [i \in 1..N |->
                                   IF IsEventNode(timeDiscretization, i - 1)
                                   THEN <<>> ELSE <<e>>]
              IN /\ deltaSolution' = getOCPSolution(deltaXSol, deltaUSol)
                 /\ alpha' = One
                 /\ trial' = NoTrial
                 /\ pc' = "linesearch"
    /\ UNCHANGED <<collectionVars, sweepVars, envVars, ocpDefinitions_, settings_, primalSolution_, performanceIndeces_, totalNumIterations_,
                   dynamics_, cost_, constraints_, constraintsProjection_, initState,
                   timeDiscretization, x, u, iter, baselinePerformance, stepInfo>>


\* ------------------------------------------------------------------------
\* takeStep: the filter line search
\* ------------------------------------------------------------------------

\* Total Constraint violation function
constraintViolation(p) ==
    Sqrt(p.stateEqConstraintISE + p.stateInputEqConstraintISE + p.inequalityConstraintISE)

trajectoryNorm(v) == Sqrt(SumSeq([i \in 1..Len(v) |-> SquaredNorm(v[i])]))

\* the trial iterate for the step size a / One
TrialInputs(us, du, a) ==
    [i \in 1..Len(us) |->
        IF Len(du[i]) > 0 THEN VecAdd(us[i], ScaleByFraction(a, du[i])) ELSE <<>>]

TrialStates(xs, dx, a) ==
    [i \in 1..Len(xs) |-> VecAdd(xs[i], ScaleByFraction(a, dx[i]))]

\* stepAccepted without the test against g_max
StepAccepted_NoViolationBound(baseline, performanceNew, a, armijoDescentMetric) ==
    LET newConstraintViolation == constraintViolation(performanceNew)
        baselineConstraintViolation == constraintViolation(baseline)
    IN IF /\ newConstraintViolation < settings_.g_min
          /\ baselineConstraintViolation < settings_.g_min
          /\ armijoDescentMetric < 0
       THEN performanceNew.merit * One * One
              < baseline.merit * One * One
                + settings_.armijoFactor * a * armijoDescentMetric
       ELSE \/ performanceNew.merit * One
                 < baseline.merit * One - settings_.gamma_c * baselineConstraintViolation
            \/ newConstraintViolation * One
                 < (One - settings_.gamma_c) * baselineConstraintViolation

\* stepAccepted falling back to the sufficient-decrease test when the
\* Armijo condition fails
StepAccepted_ArmijoOrDecrease(baseline, performanceNew, a, armijoDescentMetric) ==
    LET newConstraintViolation == constraintViolation(performanceNew)
        baselineConstraintViolation == constraintViolation(baseline)
        decrease ==
            \/ performanceNew.merit * One
                 < baseline.merit * One - settings_.gamma_c * baselineConstraintViolation
            \/ newConstraintViolation * One
                 < (One - settings_.gamma_c) * baselineConstraintViolation
    IN IF newConstraintViolation > settings_.g_max
       THEN FALSE
       ELSE IF /\ newConstraintViolation < settings_.g_min
               /\ baselineConstraintViolation < settings_.g_min
               /\ armijoDescentMetric < 0
            THEN \/ performanceNew.merit * One * One
                      < baseline.merit * One * One
                        + settings_.armijoFactor * a * armijoDescentMetric
                 \/ decrease
            ELSE decrease

\* stepAccepted with the comparison of the violations reversed
StepAccepted_ViolationIncrease(baseline, performanceNew, a, armijoDescentMetric) ==
    LET newConstraintViolation == constraintViolation(performanceNew)
        baselineConstraintViolation == constraintViolation(baseline)
    IN IF newConstraintViolation > settings_.g_max
       THEN FALSE
       ELSE IF /\ newConstraintViolation < settings_.g_min
               /\ baselineConstraintViolation < settings_.g_min
               /\ armijoDescentMetric < 0
            THEN performanceNew.merit * One * One
                   < baseline.merit * One * One
                     + settings_.armijoFactor * a * armijoDescentMetric
            ELSE \/ performanceNew.merit * One
                      < baseline.merit * One - settings_.gamma_c * baselineConstraintViolation
                 \/ newConstraintViolation * One
                      > (One - settings_.gamma_c) * baselineConstraintViolation

\* the lambda stepAccepted; a, gamma_c and armijoFactor are numerators over One
StepAccepted(baseline, performanceNew, a, armijoDescentMetric) ==
    LET newConstraintViolation == constraintViolation(performanceNew)
        baselineConstraintViolation == constraintViolation(baseline)
    IN IF newConstraintViolation > settings_.g_max
       THEN FALSE
       ELSE IF /\ newConstraintViolation < settings_.g_min
               /\ baselineConstraintViolation < settings_.g_min
               /\ armijoDescentMetric < 0
            THEN performanceNew.merit * One * One
                   < baseline.merit * One * One
                     + settings_.armijoFactor * a * armijoDescentMetric
            ELSE \/ performanceNew.merit * One
                      < baseline.merit * One - settings_.gamma_c * baselineConstraintViolation
                 \/ newConstraintViolation * One
                      < (One - settings_.gamma_c) * baselineConstraintViolation

\* stepSizeBelowTol with || in place of &&
StepSizeBelowTol_Either(a, deltaUnorm, deltaXnorm) ==
    \/ a * deltaUnorm < settings_.deltaTol * One
    \/ a * deltaXnorm < settings_.deltaTol * One

\* Exit conditions
StepSizeBelowTol(a, deltaUnorm, deltaXnorm) ==
    /\ a * deltaUnorm < settings_.deltaTol * One
    /\ a * deltaXnorm < settings_.deltaTol * One

ImprovementBelowTol(baseline, performanceNew) ==
    /\ Abs(baseline.merit - performanceNew.merit) < settings_.costTol
    /\ constraintViolation(performanceNew) < settings_.g_min

\* return {stepSizeBelowTol || improvementBelowTol, performanceNew}
AcceptedResult(stepSizeBelowTol, improvementBelowTol, performanceNew) ==
    [converged |-> stepSizeBelowTol \/ improvementBelowTol, performance |-> performanceNew]

\* the stalled return handing back the rejected trial's performance
StalledResult_ReturnsTrial(baseline, performanceNew) ==
    [converged |-> TRUE, performance |-> performanceNew]

\* a stalled return that does not report convergence
StalledResult_NotConverged(baseline, performanceNew) ==
    [converged |-> FALSE, performance |-> baseline]

\* return {true, baseline}: no trial was accepted
StalledResult(baseline, performanceNew) ==
    [converged |-> TRUE, performance |-> baseline]

\* takeStep returns to runImpl
ReturnStep(result) ==
    /\ stepInfo' = [converged |-> result.converged, performance |-> result.performance,
                    returned |-> TRUE]
    /\ pc' = "returned"

\* a line search that does not shrink the step size
NextAlpha_Unchanged(a) == a

\* alpha *= alpha_decay
NextAlpha(a) == (a * settings_.alpha_decay) \div One

\* a loop that tries again at alpha_min
TriesAgain_AtAlphaMin(a) == a >= settings_.alpha_min

\* do { ... } while (alpha > alpha_min)
TriesAgain(a) == a > settings_.alpha_min

\* One pass through the do-while loop of takeStep, and the return of
\* takeStep to runImpl when the pass ends the loop.
LineSearchTrial ==
    /\ pc = "linesearch"
    /\ LET N == Len(timeDiscretization) - 1
           dx == deltaSolution.deltaXSol
           du == deltaSolution.deltaUSol
           deltaUnorm == trajectoryNorm(du)
           deltaXnorm == trajectoryNorm(dx)
           uNew == TrialInputs(u, du, alpha)
           xNew == TrialStates(x, dx, alpha)
           stepSizeBelowTol == StepSizeBelowTol(alpha, deltaUnorm, deltaXnorm)
       IN \E workerPerformance \in SweepAnswers(xNew, uNew) :
            LET performanceNew == computePerformance(workerPerformance, initState, xNew)
                stepAccepted == StepAccepted(baselinePerformance, performanceNew, alpha,
                                             deltaSolution.armijoDescentMetric)
            IN /\ trial' = [alpha |-> alpha, performanceNew |-> performanceNew,
                            stepAccepted |-> stepAccepted, tried |-> TRUE]
               /\ IF stepAccepted
                  THEN /\ x' = xNew
                       /\ u' = uNew
                       /\ alpha' = alpha
                       /\ ReturnStep(AcceptedResult(
                              stepSizeBelowTol,
                              ImprovementBelowTol(baselinePerformance, performanceNew),
                              performanceNew))
                  ELSE IF stepSizeBelowTol
                  THEN /\ UNCHANGED <<x, u, alpha>>
                       /\ ReturnStep(StalledResult(baselinePerformance, performanceNew))
                  ELSE /\ alpha' = NextAlpha(alpha)
                       /\ UNCHANGED <<x, u>>
                       /\ IF TriesAgain(alpha')
                          THEN UNCHANGED <<pc, stepInfo>>
                          ELSE ReturnStep(StalledResult(baselinePerformance, performanceNew))
    /\ UNCHANGED <<hpipmInterface_, collectionVars, sweepVars, envVars, ocpDefinitions_, settings_, primalSolution_, performanceIndeces_, totalNumIterations_,
                   dynamics_, cost_, constraints_, constraintsProjection_, initState,
                   timeDiscretization, iter, baselinePerformance, deltaSolution>>

\* the loop without its iteration bound
LeavesLoop_OnlyWhenConverged(converged, nextIter) == converged

\* for (; iter < settings_.sqpIteration; iter++) { ... if (converged) break; }
LeavesLoop(converged, nextIter) ==
    converged \/ ~(nextIter < settings_.sqpIteration)

\* runImpl after takeStep returned: the performance is logged, the
\* iteration is counted and the loop is left when converged or when iter
\* reaches sqpIteration; the locals of the loop body go out of scope.
EndIteration ==
    /\ pc = "returned"
    /\ performanceIndeces_' = Append(performanceIndeces_, stepInfo.performance)
    /\ totalNumIterations_' = totalNumIterations_ + 1
    /\ iter' = IF stepInfo.converged THEN iter ELSE iter + 1
    /\ pc' = IF LeavesLoop(stepInfo.converged, iter + 1) THEN "finish" ELSE "iterate"
    /\ baselinePerformance' = ZeroPerf
    /\ deltaSolution' = NoSolution
    /\ alpha' = One
    /\ trial' = NoTrial
    /\ stepInfo' = NoStep
    /\ hpipmInterface_' = NoQp
    /\ UNCHANGED <<collectionVars, sweepVars, envVars, ocpDefinitions_, settings_, primalSolution_, dynamics_, cost_, constraints_,
                   constraintsProjection_, initState, timeDiscretization, x, u>>

\* ------------------------------------------------------------------------
\* setPrimalSolution
\* ------------------------------------------------------------------------

\* what a read of a vector outside its storage can yield
GarbageVectorSet == { <<>>, <<0>>, <<1>> }

\* setPrimalSolution without the correction of the inputs at PreEvents
CorrectInputs_None(i, time, us) == us

\* Correct for missing inputs at PreEvents: for i = 0..time.size()-1 in order
RECURSIVE CorrectInputs(_, _, _)
CorrectInputs(i, time, us) ==
    IF i >= Len(time) THEN us
    ELSE IF time[i + 1].event = "PreEvent" /\ i > 0
         THEN CorrectInputs(i + 1, time, [us EXCEPT ![i + 1] = us[i]])
         ELSE CorrectInputs(i + 1, time, us)

\* the feedback loop for i = 0..time.size()-2: uff and controllerGain
RECURSIVE FeedbackLoop(_, _, _, _, _, _)
FeedbackLoop(i, time, xs, KMatrices, uff, controllerGain) ==
    IF i + 1 >= Len(time) THEN [uff |-> uff, controllerGain |-> controllerGain]
    ELSE IF time[i + 1].event = "PreEvent" /\ i > 0
         THEN FeedbackLoop(i + 1, time, xs, KMatrices,
                           [uff EXCEPT ![i + 1] = uff[i]],
                           Append(controllerGain, Last(controllerGain)))
         ELSE LET gain == IF Len(constraintsProjection_[i + 1].f) > 0
                          THEN constraintsProjection_[i + 1].dfdx
                               + constraintsProjection_[i + 1].dfdu * KMatrices[i + 1]
                          ELSE KMatrices[i + 1]
                  ff == [k \in 1..Len(uff[i + 1]) |-> uff[i + 1][k] - gain * xs[i + 1][k]]
              IN FeedbackLoop(i + 1, time, xs, KMatrices,
                              [uff EXCEPT ![i + 1] = ff], Append(controllerGain, gain))

\* setPrimalSolution without the repeated last input
PrimalSolutionOf_NoRepeat(time, xs, us, KMatrices) ==
    LET uc == CorrectInputs(0, time, us)
        fb == FeedbackLoop(0, time, xs, KMatrices, uc, <<>>)
        timeTrajectory == [i \in 1..Len(time) |-> time[i].time]
    IN [timeTrajectory_ |-> timeTrajectory,
        stateTrajectory_ |-> xs,
        inputTrajectory_ |-> uc,
        modeSchedule_ |-> referenceManager.eventTimes,
        controller |->
            IF settings_.useFeedbackPolicy
            THEN [type |-> "LinearController", timeStamp |-> timeTrajectory,
                  bias |-> fb.uff, gain |-> fb.controllerGain]
            ELSE [type |-> "FeedforwardController", timeStamp |-> timeTrajectory,
                  bias |-> uc, gain |-> <<>>]]

\* setPrimalSolution that assigns a feed-forward controller whatever
\* useFeedbackPolicy is
PrimalSolutionOf_AlwaysFeedforward(time, xs, us, KMatrices) ==
    LET uc == CorrectInputs(0, time, us)
        inputTrajectory == Append(uc, Last(uc))
        timeTrajectory == [i \in 1..Len(time) |-> time[i].time]
    IN [timeTrajectory_ |-> timeTrajectory,
        stateTrajectory_ |-> xs,
        inputTrajectory_ |-> inputTrajectory,
        modeSchedule_ |-> referenceManager.eventTimes,
        controller |->
            [type |-> "FeedforwardController", timeStamp |-> timeTrajectory,
             bias |-> inputTrajectory, gain |-> <<>>]]

\* setPrimalSolution for a horizon with at least one input (u is not empty)
PrimalSolutionOf(time, xs, us, KMatrices) ==
    LET uc == CorrectInputs(0, time, us)
        fb == FeedbackLoop(0, time, xs, KMatrices, uc, <<>>)
        uff == Append(fb.uff, Last(fb.uff))
        controllerGain == Append(fb.controllerGain, Last(fb.controllerGain))
        inputTrajectory == Append(uc, Last(uc))
        timeTrajectory == [i \in 1..Len(time) |-> time[i].time]
    IN [timeTrajectory_ |-> timeTrajectory,
        stateTrajectory_ |-> xs,
        inputTrajectory_ |-> inputTrajectory,
        modeSchedule_ |-> referenceManager.eventTimes,
        controller |->
            IF settings_.useFeedbackPolicy
            THEN [type |-> "LinearController", timeStamp |-> timeTrajectory,
                  bias |-> uff, gain |-> controllerGain]
            ELSE [type |-> "FeedforwardController", timeStamp |-> timeTrajectory,
                  bias |-> inputTrajectory, gain |-> <<>>]]

\* setPrimalSolution when u is empty (N = 0): u.back(), uff.back(),
\* controllerGain.back() and dynamics_[0] are reads outside the storage.  The
\* read yields some value and the element pushed is a copy of it, or the
\* process stops.
PrimalSolutionOfEmpty(time, xs, garbage, garbageGain) ==
    LET timeTrajectory == [i \in 1..Len(time) |-> time[i].time]
    IN [timeTrajectory_ |-> timeTrajectory,
        stateTrajectory_ |-> xs,
        inputTrajectory_ |-> <<garbage>>,
        modeSchedule_ |-> referenceManager.eventTimes,
        controller |->
            IF settings_.useFeedbackPolicy
            THEN [type |-> "LinearController", timeStamp |-> timeTrajectory,
                  bias |-> <<garbage>>, gain |-> <<garbageGain>>]
            ELSE [type |-> "FeedforwardController", timeStamp |-> timeTrajectory,
                  bias |-> <<garbage>>, gain |-> <<>>]]

\* The loop of runImpl is left and the primal solution is set; run returns.
SetPrimalSolution ==
    /\ pc = "finish"
    /\ LET N == Len(timeDiscretization) - 1
       IN IF Len(u) > 0
          THEN /\ \E KMatrices \in (IF settings_.useFeedbackPolicy
                                    THEN GainAnswers(N) ELSE {<<>>}) :
                    primalSolution_' = PrimalSolutionOf(timeDiscretization, x, u, KMatrices)
               /\ pc' = "done"
          ELSE \/ /\ pc' = "crashed"
                  /\ primalSolution_' = EmptyPrimalSolution
               \/ /\ \E garbage \in GarbageVectorSet, garbageGain \in GainSet :
                       primalSolution_' = PrimalSolutionOfEmpty(timeDiscretization, x,
                                                                garbage, garbageGain)
                  /\ pc' = "done"
    /\ UNCHANGED <<hpipmInterface_, collectionVars, sweepVars, envVars, ocpDefinitions_, settings_, performanceIndeces_, totalNumIterations_, dynamics_, cost_,
                   constraints_, constraintsProjection_, initState, timeDiscretization,
                   x, u, iter, baselinePerformance, deltaSolution, alpha, trial, stepInfo>>

\* ------------------------------------------------------------------------
\* Specification of one run of the solver
\* ------------------------------------------------------------------------

Init == EnvInit /\ SweepIdle /\ SolverInit /\ CollectionInit

Next ==
    \/ \E finalTime \in 0..MaxFinalTime : Run(finalTime)
    \/ SetupQuadraticSubproblem
    \/ SolveQP
    \/ LineSearchTrial
    \/ EndIteration
    \/ SetPrimalSolution

Spec == Init /\ [][Next]_vars

\* ------------------------------------------------------------------------
\* Specification of the life of a solver: construction, runs and resets,
\* with deterministic user functions and a deterministic QP solver
\* ------------------------------------------------------------------------

Deterministic(sign, d, e, failFrom, failure, gain, equalityConstraintEmpty) ==
    [deterministic |-> TRUE, sign |-> sign, d |-> d, e |-> e,
     failFrom |-> failFrom, failure |-> failure, gain |-> gain,
     optimalControlProblem |-> [equalityConstraintEmpty |-> equalityConstraintEmpty]]

\* failFrom = 99: the QP solver never fails; 20: it fails in a later
\* iteration or a warm-started run; 1: it fails away from the initial
\* iterate; 0: it always fails
EnvironmentSet ==
    { Deterministic(-1, One, One, 99, "MAX_ITER", 1, TRUE),
      Deterministic(-1, One, 0, 1, "INFEASIBLE", 0, FALSE),
      Deterministic(-1, One, One, 20, "NUMERICAL_FAILURE", 1, FALSE),
      Deterministic(1, One, One, 99, "MAX_ITER", 1, FALSE),
      Deterministic(-1, 0, One, 0, "MAX_ITER", 0, TRUE),
      Deterministic(1, 0, 0, 99, "MAX_ITER", 0, TRUE) }

\* the settings a user constructs a solver with
UserSettingsSet ==
    { [BaseSettings EXCEPT !.sqpIteration = n,
                           !.projectStateInputEqualityConstraints = p,
                           !.useFeedbackPolicy = p] :
          n \in 1..2, p \in BOOLEAN }
    \cup { [BaseSettings EXCEPT !.sqpIteration = 1, !.nThreads = 0] }

\* before the constructor: no member has a value yet
Unconstructed ==
    /\ pc = "new"
    /\ settings_ = BaseSettings
    /\ ocpDefinitions_ = <<>>
    /\ primalSolution_ = EmptyPrimalSolution
    /\ performanceIndeces_ = <<>>
    /\ totalNumIterations_ = 0
    /\ dynamics_ = <<>>
    /\ cost_ = <<>>
    /\ constraints_ = <<>>
    /\ constraintsProjection_ = <<>>
    /\ initState = <<0>>
    /\ timeDiscretization = <<>>
    /\ x = <<>>
    /\ u = <<>>
    /\ iter = 0
    /\ baselinePerformance = ZeroPerf
    /\ deltaSolution = NoSolution
    /\ alpha = One
    /\ trial = NoTrial
    /\ stepInfo = NoStep
    /\ hpipmInterface_ = NoQp

LifecycleInit ==
    /\ Unconstructed
    /\ SweepIdle
    /\ CollectionInit
    /\ referenceManager \in [eventTimes : EventTimesSet]
    /\ runArgs = NoArgs
    /\ environment \in EnvironmentSet
    /\ history = NoHistory

LifecycleNext ==
    \/ \E settings \in UserSettingsSet : Construct(settings)
    \/ \E finalTime \in 1..MaxFinalTime : Run(finalTime)
    \/ \E finalTime \in 1..MaxFinalTime : Rerun(0, initState, finalTime)
    \/ Reset
    \/ SetupQuadraticSubproblem
    \/ CrashOnEmptyVector
    \/ SolveQP
    \/ LineSearchTrial
    \/ EndIteration
    \/ SetPrimalSolution

LifecycleSpec == LifecycleInit /\ [][LifecycleNext]_vars


\* ------------------------------------------------------------------------
\* The parallel sweep of setupQuadraticSubproblem and computePerformance
\* ------------------------------------------------------------------------

\* what the node evaluations of a sweep over N + 1 nodes return: every node
\* differs from every other in some field
NodePerformanceProfiles(N) ==
    { [i \in 1..(N + 1) |-> Perf(0, 2 ^ i, 1, 0, 0, 0)],
      [i \in 1..(N + 1) |-> Perf(0, 1, 0, i, 2 ^ i, 1)] }

\* ++timeIndex in place of timeIndex++
FetchAndIncrement_PreIncrement(counter) == [value |-> counter + 1, counter |-> counter + 1]

\* timeIndex++ : the value read and the value left in the counter
FetchAndIncrement(counter) == [value |-> counter, counter |-> counter + 1]

\* runParallel(task, nThreads): the task ids are 0..nThreads-1, each started once
TaskIds(nThreads) == 1..nThreads

IsSetup == sweep.kind = "setupQuadraticSubproblem"

\* Up to runParallel: the accumulators and (setupQuadraticSubproblem only)
\* the buffers are sized, the counter is zero and the tasks are started.
SweepBegin ==
    /\ sweep.phase = "called"
    /\ LET N == Len(timeDiscretization) - 1
       IN /\ performance' = [w \in 1..settings_.nThreads |-> ZeroPerf]
          /\ IF IsSetup
             THEN /\ dynamics_' = Resize(dynamics_, N)
                  /\ cost_' = Resize(cost_, N + 1)
                  /\ constraints_' = Resize(constraints_, N + 1)
                  /\ constraintsProjection_' = Resize(constraintsProjection_, N)
             ELSE UNCHANGED <<dynamics_, cost_, constraints_, constraintsProjection_>>
          /\ timeIndex' = 0
          /\ worker' = [w \in TaskIds(settings_.nThreads) |->
                           [pc |-> "start", i |-> 0, workerPerformance |-> ZeroPerf]]
          /\ access' = [dynamics |-> [i \in 1..N |-> <<>>],
                        cost |-> [i \in 1..(N + 1) |-> <<>>],
                        constraints |-> [i \in 1..(N + 1) |-> <<>>],
                        constraintsProjection |-> [i \in 1..N |-> <<>>],
                        ocpDefinition |-> [c \in 1..Len(ocpDefinitions_) |-> {}],
                        performance |-> [c \in 1..settings_.nThreads |-> {}],
                        node |-> [i \in 1..(N + 1) |-> <<>>]]
    /\ sweep' = [sweep EXCEPT !.phase = "running"]
    /\ UNCHANGED <<hpipmInterface_, collectionVars, envVars, pc, ocpDefinitions_, settings_, primalSolution_, performanceIndeces_,
                   totalNumIterations_, initState, timeDiscretization, x, u, iter,
                   baselinePerformance, deltaSolution, alpha, trial, stepInfo,
                   nodePerformance, totalPerformance>>

\* int i = timeIndex++ (at the start of the task and after each node)
WorkerFetch(w) ==
    /\ sweep.phase = "running"
    /\ worker[w].pc \in {"start", "fetch"}
    /\ LET f == FetchAndIncrement(timeIndex)
       IN /\ timeIndex' = f.counter
          /\ worker' = [worker EXCEPT ![w].pc = "claimed", ![w].i = f.value]
    /\ UNCHANGED <<collectionVars, envVars, solverVars, sweep, nodePerformance, performance, access, totalPerformance>>

\* the writes of task w to the slots of node i (history of who wrote what)
RecordNode(w, i, withDynamics) ==
    [access EXCEPT
        !.node[i + 1] = Append(@, w),
        !.ocpDefinition[w] = @ \cup {w},
        !.cost[i + 1] = IF IsSetup THEN Append(@, w) ELSE @,
        !.constraints[i + 1] = IF IsSetup THEN Append(@, w) ELSE @,
        !.dynamics = IF IsSetup /\ withDynamics
                     THEN [@ EXCEPT ![i + 1] = Append(@, w)] ELSE @,
        !.constraintsProjection = IF IsSetup /\ withDynamics
                                  THEN [@ EXCEPT ![i + 1] = Append(@, w)] ELSE @]

\* the body of while (i < N): an event node or an intermediate node
WorkerNode(w) ==
    /\ sweep.phase = "running"
    /\ worker[w].pc = "claimed"
    /\ LET N == Len(timeDiscretization) - 1
           i == worker[w].i
       IN /\ i < N
          /\ worker' = [worker EXCEPT
                           ![w].workerPerformance = PerfAdd(@, nodePerformance[i + 1]),
                           ![w].pc = "fetch"]
          /\ IF IsSetup
             THEN /\ dynamics_' = [dynamics_ EXCEPT ![i + 1] = NodeDynamics(timeDiscretization, i)]
                  /\ cost_' = [cost_ EXCEPT ![i + 1] = NodeCost(timeDiscretization, i, -1)]
                  /\ constraints_' = [constraints_ EXCEPT
                                         ![i + 1] = NodeConstraints(timeDiscretization, i)]
                  /\ constraintsProjection_' =
                         [constraintsProjection_ EXCEPT
                             ![i + 1] = NodeProjection(timeDiscretization, i)]
             ELSE UNCHANGED <<dynamics_, cost_, constraints_, constraintsProjection_>>
          /\ access' = RecordNode(w, i, TRUE)
    /\ UNCHANGED <<hpipmInterface_, collectionVars, envVars, pc, ocpDefinitions_, settings_, primalSolution_, performanceIndeces_,
                   totalNumIterations_, initState, timeDiscretization, x, u, iter,
                   baselinePerformance, deltaSolution, alpha, trial, stepInfo,
                   sweep, nodePerformance, timeIndex, performance, totalPerformance>>

\* if (i == N): the terminal node
WorkerTerminal(w) ==
    /\ sweep.phase = "running"
    /\ worker[w].pc = "claimed"
    /\ LET N == Len(timeDiscretization) - 1
           i == worker[w].i
       IN /\ i = N
          /\ worker' = [worker EXCEPT
                           ![w].workerPerformance = PerfAdd(@, nodePerformance[i + 1]),
                           ![w].pc = "accumulate"]
          /\ IF IsSetup
             THEN /\ cost_' = [cost_ EXCEPT ![i + 1] = NodeCost(timeDiscretization, i, -1)]
                  /\ constraints_' = [constraints_ EXCEPT
                                         ![i + 1] = NodeConstraints(timeDiscretization, i)]
             ELSE UNCHANGED <<cost_, constraints_>>
          /\ access' = RecordNode(w, i, FALSE)
    /\ UNCHANGED <<hpipmInterface_, collectionVars, envVars, pc, ocpDefinitions_, settings_, primalSolution_, performanceIndeces_,
                   totalNumIterations_, initState, timeDiscretization, x, u, iter,
                   baselinePerformance, deltaSolution, alpha, trial, stepInfo,
                   dynamics_, constraintsProjection_,
                   sweep, nodePerformance, timeIndex, performance, totalPerformance>>

\* performance[workerId] += workerPerformance, the end of the task
WorkerAccumulate(w) ==
    /\ sweep.phase = "running"
    /\ \/ worker[w].pc = "accumulate"
       \/ worker[w].pc = "claimed" /\ worker[w].i > Len(timeDiscretization) - 1
    /\ performance' = [performance EXCEPT ![w] = PerfAdd(@, worker[w].workerPerformance)]
    /\ access' = [access EXCEPT !.performance[w] = @ \cup {w}]
    /\ worker' = [worker EXCEPT ![w].pc = "done"]
    /\ UNCHANGED <<collectionVars, envVars, solverVars, sweep, nodePerformance, timeIndex, totalPerformance>>

\* runParallel returned: the defect of the initial state is added and the
\* accumulators are summed
SweepJoin ==
    /\ sweep.phase = "running"
    /\ \A w \in DOMAIN worker : worker[w].pc = "done"
    /\ totalPerformance' = TotalPerformance(performance, initState, x)
    /\ sweep' = [sweep EXCEPT !.phase = "joined"]
    /\ UNCHANGED <<collectionVars, envVars, solverVars, nodePerformance, timeIndex, worker, performance, access>>

\* the time grids of the sweeps
SweepGridSet ==
    { timeDiscretizationWithEvents(0, finalTime, eventTimes) :
          finalTime \in 0..MaxFinalTime, eventTimes \in EventTimesSet }

\* A solver with nThreads workers, about to run one sweep over a time grid
\* at an iterate whose first state may differ from initState.
SweepInit ==
    /\ environment = FreeEnvironment
    /\ pc = "sweep"
    /\ settings_ \in { [BaseSettings EXCEPT !.nThreads = n] : n \in 1..MaxThreads }
    /\ ocpDefinitions_ = CloneProblem(environment.optimalControlProblem, settings_.nThreads)
    /\ primalSolution_ = EmptyPrimalSolution
    /\ performanceIndeces_ = <<>>
    /\ totalNumIterations_ = 0
    /\ dynamics_ = <<>>
    /\ cost_ = <<>>
    /\ constraints_ = <<>>
    /\ constraintsProjection_ = <<>>
    /\ initState = <<0>>
    /\ timeDiscretization \in SweepGridSet
    /\ \E x0 \in {0, 1} :
         x = [i \in 1..Len(timeDiscretization) |-> IF i = 1 THEN <<x0>> ELSE <<0>>]
    /\ u = [i \in 1..(Len(timeDiscretization) - 1) |->
               IF IsEventNode(timeDiscretization, i - 1) THEN <<>> ELSE <<0>>]
    /\ iter = 0
    /\ baselinePerformance = ZeroPerf
    /\ deltaSolution = NoSolution
    /\ alpha = One
    /\ trial = NoTrial
    /\ stepInfo = NoStep
    /\ hpipmInterface_ = NoQp
    /\ sweep \in [kind : {"setupQuadraticSubproblem", "computePerformance"}, phase : {"called"}]
    /\ nodePerformance \in NodePerformanceProfiles(Len(timeDiscretization) - 1)
    /\ timeIndex = 0
    /\ worker = <<>>
    /\ performance = <<>>
    /\ access = NoAccess
    /\ totalPerformance = ZeroPerf
    /\ referenceManager = [eventTimes |-> <<>>]
    /\ runArgs = NoArgs
    /\ history = NoHistory
    /\ CollectionInit

SweepNext ==
    \/ SweepBegin
    \/ \E w \in DOMAIN worker : WorkerFetch(w)
    \/ \E w \in DOMAIN worker : WorkerNode(w)
    \/ \E w \in DOMAIN worker : WorkerTerminal(w)
    \/ \E w \in DOMAIN worker : WorkerAccumulate(w)
    \/ SweepJoin

SweepSpec == SweepInit /\ [][SweepNext]_vars


\* ------------------------------------------------------------------------
\* Properties of the filter line search (specification Spec)
\* ------------------------------------------------------------------------

\* the quantities of the last trial, while the locals of takeStep are alive
ThetaNew == constraintViolation(trial.performanceNew)

ThetaBase == constraintViolation(baselinePerformance)

InTakeStep == pc \in {"linesearch", "returned"} /\ trial.tried

\* C1: a trial whose violation theta_new = sqrt(stateEqISE + stateInputEqISE
\* + inequalityISE) exceeds g_max is never accepted: the pass of the line
\* search that evaluated it leaves the iterate (x, u) as it was.
C1_NoAcceptAboveGMax ==
    [][ (pc = "linesearch" /\ constraintViolation(trial'.performanceNew) > settings_.g_max)
            => (~trial'.stepAccepted /\ x' = x /\ u' = u) ]_vars

\* C1 witness: a trial above g_max was rejected although its merit is below
\* the baseline's
C1_Witness ==
    /\ InTakeStep
    /\ ThetaNew > settings_.g_max
    /\ ~trial.stepAccepted
    /\ trial.performanceNew.merit < baselinePerformance.merit

\* C2: a trial with theta_new <= g_max is accepted exactly when: in the
\* Armijo case (theta_new < g_min, baseline violation < g_min, m < 0)
\* merit_new < merit_base + armijoFactor * alpha * m; in every other case
\* merit_new < merit_base - gamma_c * theta_base or
\* theta_new < (1 - gamma_c) * theta_base.
C2_AcceptanceRule ==
    (InTakeStep /\ ThetaNew <= settings_.g_max) =>
        LET m == deltaSolution.armijoDescentMetric
            armijoCase == ThetaNew < settings_.g_min /\ ThetaBase < settings_.g_min /\ m < 0
            armijo == trial.performanceNew.merit * One * One
                        < baselinePerformance.merit * One * One
                          + settings_.armijoFactor * trial.alpha * m
            decrease == \/ trial.performanceNew.merit * One
                             < baselinePerformance.merit * One - settings_.gamma_c * ThetaBase
                        \/ ThetaNew * One < (One - settings_.gamma_c) * ThetaBase
        IN trial.stepAccepted <=> (IF armijoCase THEN armijo ELSE decrease)

\* C2 witness: the Armijo case applied and rejected a trial that passes the
\* sufficient-decrease test
C2_Witness ==
    /\ InTakeStep
    /\ ThetaNew < settings_.g_min
    /\ ThetaBase < settings_.g_min
    /\ deltaSolution.armijoDescentMetric < 0
    /\ ~trial.stepAccepted
    /\ trial.performanceNew.merit * One
         < baselinePerformance.merit * One - settings_.gamma_c * ThetaBase

\* C3: when the line search accepts a step, the accepted performance has
\* merit <= the baseline's merit or a violation < the baseline's violation.
C3_FilterProgress ==
    (pc = "returned" /\ trial.stepAccepted) =>
        \/ stepInfo.performance.merit <= baselinePerformance.merit
        \/ constraintViolation(stepInfo.performance) < ThetaBase

\* C3 witness: a step was accepted whose merit is above the baseline's
C3_Witness ==
    /\ pc = "returned"
    /\ trial.stepAccepted
    /\ stepInfo.performance.merit > baselinePerformance.merit

DeltaUnorm == trajectoryNorm(deltaSolution.deltaUSol)

DeltaXnorm == trajectoryNorm(deltaSolution.deltaXSol)

ImprovementSmall ==
    /\ Abs(baselinePerformance.merit - trial.performanceNew.merit) < settings_.costTol
    /\ ThetaNew < settings_.g_min

\* C4 as stated: an accepted step is declared converged iff
\* (|merit_base - merit_new| < costTol and theta_new < g_min) or
\* alpha * ||du|| + alpha * ||dx|| < deltaTol.
C4_ConvergedIffSumBelowTol ==
    (pc = "returned" /\ trial.stepAccepted) =>
        (stepInfo.converged <=>
            \/ ImprovementSmall
            \/ trial.alpha * DeltaUnorm + trial.alpha * DeltaXnorm < settings_.deltaTol * One)

\* C4 amended: an accepted step is declared converged iff
\* (|merit_base - merit_new| < costTol and theta_new < g_min) or
\* (alpha * ||du|| < deltaTol and alpha * ||dx|| < deltaTol).
C4_ConvergedIffBothBelowTol ==
    (pc = "returned" /\ trial.stepAccepted) =>
        (stepInfo.converged <=>
            \/ ImprovementSmall
            \/ /\ trial.alpha * DeltaUnorm < settings_.deltaTol * One
               /\ trial.alpha * DeltaXnorm < settings_.deltaTol * One)

\* C4 witness: an accepted step declared converged by the step size alone,
\* with the two scaled norms summing to deltaTol or more
C4_Witness ==
    /\ pc = "returned"
    /\ trial.stepAccepted
    /\ stepInfo.converged
    /\ ~ImprovementSmall
    /\ DeltaUnorm > 0
    /\ trial.alpha * DeltaUnorm + trial.alpha * DeltaXnorm >= settings_.deltaTol * One

\* C5: a pass of the line search that does not accept its trial leaves the
\* iterate (x, u) as it was and raises no error, and when it ends takeStep
\* the result is converged = true with the baseline performance.
C5_StalledIsConverged ==
    [][ (pc = "linesearch" /\ ~trial'.stepAccepted) =>
            /\ x' = x
            /\ u' = u
            /\ pc' \in {"linesearch", "returned"}
            /\ (pc' = "returned" =>
                   /\ stepInfo'.converged
                   /\ stepInfo'.performance = baselinePerformance) ]_vars

\* C5 witness: takeStep returned without an accepted trial, after more than
\* one trial, with a trial performance that differs from the baseline
C5_Witness ==
    /\ pc = "returned"
    /\ ~trial.stepAccepted
    /\ trial.alpha < One
    /\ trial.performanceNew # baselinePerformance
    /\ stepInfo.converged

\* ------------------------------------------------------------------------
\* Properties of the parallel sweep (specification SweepSpec)
\* ------------------------------------------------------------------------

SweepN == Len(timeDiscretization) - 1

\* C6: every node index 0..N is claimed by exactly one worker: while the
\* sweep runs no node has been processed twice, and at the join every
\* intermediate, event and terminal node has been processed once.
C6_EachNodeOnce ==
    /\ sweep.phase \in {"running", "joined"} =>
           \A i \in 1..(SweepN + 1) : Len(access.node[i]) <= 1
    /\ sweep.phase = "joined" =>
           \A i \in 1..(SweepN + 1) : Len(access.node[i]) = 1

\* C6 witness: a joined sweep over a grid with an event (nodes 0..3) in
\* which each of the two workers processed at least one node
C6_Witness ==
    /\ sweep.phase = "joined"
    /\ settings_.nThreads = 2
    /\ SweepN = 3
    /\ \E i, j \in 1..(SweepN + 1) : access.node[i] = <<1>> /\ access.node[j] = <<2>>

C8_TotalIsSumOfNodes ==
    sweep.phase = "joined" =>
        LET sum == SumPerf(nodePerformance)
            defect == SquaredNorm(VecSub(initState, x[1]))
        IN totalPerformance =
               Perf(sum.totalCost + sum.inequalityConstraintPenalty,
                    sum.totalCost,
                    sum.stateEqConstraintISE + defect,
                    sum.stateInputEqConstraintISE,
                    sum.inequalityConstraintISE,
                    sum.inequalityConstraintPenalty)

\* C8 witness: a joined sweep with a non-zero defect in which two
\* accumulators are non-zero
C8_Witness ==
    /\ sweep.phase = "joined"
    /\ x[1] # initState
    /\ \E v, w \in DOMAIN performance :
           v # w /\ performance[v] # ZeroPerf /\ performance[w] # ZeroPerf

\* ------------------------------------------------------------------------
\* Properties of the primal solution (specification Spec)
\* ------------------------------------------------------------------------

\* C9: after a run that returned, the time, state and input trajectories of
\* the primal solution all have the length of the time grid.
C9_EqualLengths ==
    pc = "done" =>
        /\ Len(primalSolution_.timeTrajectory_) = Len(timeDiscretization)
        /\ Len(primalSolution_.stateTrajectory_) = Len(timeDiscretization)
        /\ Len(primalSolution_.inputTrajectory_) = Len(timeDiscretization)

\* C9 witness: a run over a grid with an event node has returned
C9_Witness ==
    /\ pc = "done"
    /\ \E i \in 1..Len(timeDiscretization) : timeDiscretization[i].event = "PreEvent"
    /\ Len(primalSolution_.inputTrajectory_) = 4

\* C10 as stated: a run with initTime = finalTime (a single node, N = 0)
\* completes without error, with trajectories of length 1.
C10_DegenerateRunCompletes ==
    Len(timeDiscretization) = 1 =>
        /\ pc # "crashed"
        /\ pc = "done" =>
               /\ Len(primalSolution_.timeTrajectory_) = 1
               /\ Len(primalSolution_.stateTrajectory_) = 1
               /\ Len(primalSolution_.inputTrajectory_) = 1

C12_ControllerOfPolicy ==
    pc = "done" =>
        /\ primalSolution_.controller.type =
               (IF settings_.useFeedbackPolicy
                THEN "LinearController" ELSE "FeedforwardController")
        /\ Last(primalSolution_.controller.timeStamp) = Last(primalSolution_.timeTrajectory_)
        /\ Last(primalSolution_.timeTrajectory_) = runArgs.finalTime

\* C12 witness: a run to finalTime = 2 with feedback has returned
C12_Witness ==
    /\ pc = "done"
    /\ settings_.useFeedbackPolicy
    /\ runArgs.finalTime = 2
    /\ primalSolution_.controller.type = "LinearController"
    /\ Len(primalSolution_.controller.gain) = Len(timeDiscretization)

\* ------------------------------------------------------------------------
\* Properties of the life of a solver (specification LifecycleSpec)
\* ------------------------------------------------------------------------

\* C13: a solver constructed for a problem whose state-input equality
\* constraints are empty has projectStateInputEqualityConstraints = false,
\* whatever the user's settings said: in every state of a constructed
\* solver, projection enabled implies that the problem, and every clone of
\* it, has equality constraints.
C13_ProjectionNeedsConstraints ==
    (pc # "new" /\ settings_.projectStateInputEqualityConstraints) =>
        /\ ~environment.optimalControlProblem.equalityConstraintEmpty
        /\ \A w \in DOMAIN ocpDefinitions_ : ~ocpDefinitions_[w].equalityConstraintEmpty

\* C13 witness: the user asked for projection, the problem has no equality
\* constraints, and the solver has made a run without projection
C13_Witness ==
    /\ pc = "done"
    /\ history.userProjection
    /\ environment.optimalControlProblem.equalityConstraintEmpty
    /\ ~settings_.projectStateInputEqualityConstraints
    /\ \A i \in DOMAIN constraintsProjection_ : constraintsProjection_[i] = NoProjection

\* C14: when the QP solver returns a status other than SUCCESS the run
\* fails in that iteration: the step from "solve" goes to the failure (or,
\* for a solver without workers, to the crash), it changes neither the
\* iterate, the iteration log, the iteration counter nor the stored primal
\* solution, no line-search trial exists, the log holds exactly the entries
\* of the iterations completed before, and the failed run takes no further
\* step: what follows is a reset or the start of a new run.
C14_FailedSolveEndsRun ==
    [][/\ (pc = "solve" /\ StatusAnswers(x) \cap {"SUCCESS"} = {}) =>
              pc' \in {"threw", "crashed"}
       /\ (pc = "solve" /\ pc' = "threw") =>
              /\ primalSolution_' = primalSolution_
              /\ performanceIndeces_' = performanceIndeces_
              /\ totalNumIterations_' = totalNumIterations_
              /\ x' = x /\ u' = u /\ iter' = iter
              /\ trial' = NoTrial
              /\ Len(performanceIndeces_') = iter'
       /\ pc = "threw" =>
              \/ pc' = "idle"
              \/ pc' \in {"iterate", "crashed"} /\ Len(history'.runs) = Len(history.runs) + 1
      ]_vars

\* C14 witness: the second iteration of a run has failed after a first
\* iteration that was logged, and the primal solution of the previous run is
\* still stored
C14_Witness ==
    /\ pc = "threw"
    /\ iter = 1
    /\ Len(performanceIndeces_) = 1
    /\ Len(history.runs) = 1
    /\ Last(history.runs).outcome = "done"
    /\ primalSolution_ = Last(history.runs).solution
    /\ primalSolution_.timeTrajectory_ # <<>>

\* C15: constructing a solver with nThreads = 0 fails, so that every
\* constructed solver, and with it every solver that reaches run, has at
\* least one worker and one clone of the problem.
C15_NoSolverWithoutWorkers ==
    pc # "new" => (settings_.nThreads >= 1 /\ Len(ocpDefinitions_) >= 1)

\* C16: with one thread, a deterministic problem and QP solver and an
\* unchanged reference manager, two runs that each start from a solver that
\* was just reset (or constructed) and have the same arguments end in the
\* same way with the same PerformanceIndex history.
C16_ResetRunReproducible ==
    (/\ pc \in {"done", "threw"}
     /\ settings_.nThreads = 1
     /\ environment.deterministic
     /\ history.runs # <<>>
     /\ history.fresh
     /\ Last(history.runs).fresh
     /\ Last(history.runs).args = runArgs
     /\ Last(history.runs).eventTimes = referenceManager.eventTimes) =>
        /\ performanceIndeces_ = Last(history.runs).log
        /\ pc = Last(history.runs).outcome

\* C16 witness: the second of two such runs has ended after two iterations
\* with different performance; the first run had stored a primal solution,
\* which the reset between the runs cleared
C16_Witness ==
    /\ pc = "done"
    /\ settings_.nThreads = 1
    /\ Len(history.runs) = 1
    /\ history.fresh
    /\ Last(history.runs).fresh
    /\ Last(history.runs).args = runArgs
    /\ Last(history.runs).solution # EmptyPrimalSolution
    /\ Len(performanceIndeces_) = 2
    /\ performanceIndeces_[1] # performanceIndeces_[2]
    /\ performanceIndeces_ = Last(history.runs).log

\* ------------------------------------------------------------------------
\* Specification of a run whose reference manager is shared with another
\* party, which sets a new mode schedule while the run is in progress
\* ------------------------------------------------------------------------

setModeSchedule(eventTimes) ==
    /\ pc \in {"iterate", "solve", "linesearch", "returned", "finish"}
    /\ eventTimes # referenceManager.eventTimes
    /\ referenceManager' = [referenceManager EXCEPT !.eventTimes = eventTimes]
    /\ UNCHANGED <<collectionVars, solverVars, sweepVars, runArgs, environment, history>>

SharedNext ==
    \/ Next
    \/ \E eventTimes \in EventTimesSet : setModeSchedule(eventTimes)

SharedSpec == Init /\ [][SharedNext]_vars

\* C18: the mode schedule stored in the primal solution of a run is the one
\* whose event times the run used for its time discretization, also when
\* the mode schedule of the reference manager was changed during the run.
C18_OneSnapshotPerRun ==
    pc = "done" => primalSolution_.modeSchedule_ = runArgs.eventTimes

\* ------------------------------------------------------------------------
\* Termination of a run
\* ------------------------------------------------------------------------

InLoop == pc \in {"iterate", "solve", "linesearch", "returned"}

Ended == pc \in {"done", "threw", "crashed"}

\* A variant of run: the number of steps a run can still take is bounded by
\* the iterations left, the position in the iteration and, in the line
\* search, the step size alpha, which only shrinks.
Variant ==
    LET perIteration == One + 4
        left == (settings_.sqpIteration - iter) * perIteration
    IN CASE pc = "idle" -> (settings_.sqpIteration + 1) * perIteration
         [] pc = "iterate" -> left + One + 3
         [] pc = "solve" -> left + One + 2
         [] pc = "linesearch" -> left + alpha + 1
         [] pc = "returned" -> left
         [] pc = "finish" -> 1
         [] OTHER -> 0

\* C17: every run ends, since each of its steps decreases a variant that is
\* never negative; it makes at most sqpIteration iterations; an iteration
\* whose line search reports converged is the last one; the loop is left
\* only when converged, when the iteration bound is reached, or by an error;
\* the primal solution is set once, after the loop, and an ended run takes
\* no further step.
C17_RunTerminates ==
    [][/\ Variant' < Variant /\ Variant' >= 0
       /\ iter' <= settings_.sqpIteration
       /\ Len(performanceIndeces_') <= settings_.sqpIteration
       /\ InLoop' => iter' < settings_.sqpIteration
       /\ (InLoop' \/ pc' = "finish") => primalSolution_' = EmptyPrimalSolution
       /\ (pc = "returned" /\ stepInfo.converged) => pc' = "finish"
       /\ (InLoop /\ pc' = "finish") =>
              /\ pc = "returned"
              /\ stepInfo.converged \/ iter + 1 = settings_.sqpIteration
       /\ InLoop => (InLoop' \/ pc' \in {"finish", "threw", "crashed"})
       /\ primalSolution_' # primalSolution_ => (pc = "finish" /\ pc' = "done")
       /\ pc = "finish" => pc' \in {"done", "crashed"}
       /\ ~Ended
      ]_vars

\* C17 witness: a run has ended with a primal solution after as many
\* iterations as the bound allows, the last of them not converged
C17_Witness ==
    /\ pc = "done"
    /\ settings_.sqpIteration = 2
    /\ iter = 2
    /\ Len(performanceIndeces_) = 2
    /\ primalSolution_ # EmptyPrimalSolution

\* ------------------------------------------------------------------------
\* Collection<T>: add, get, empty, clone (specification CollectionSpec)
\* ------------------------------------------------------------------------

\* names a user gives to terms
NameSet == { "a", "b", "c" }

\* T and a class derived from T
TermTypeSet == { "T", "Derived" }

\* whether a term of the given dynamic type can be cast to Derived&
IsA(type, Derived) == Derived = "T" \/ type = Derived

\* add that replaces the term of a name that exists
add_ReplacesTerm(collection, name, term) ==
    IF name \in DOMAIN collection.termNameMap_
    THEN [terms_ |-> [collection.terms_ EXCEPT ![collection.termNameMap_[name] + 1] = term],
          termNameMap_ |-> collection.termNameMap_,
          threw |-> "none"]
    ELSE [terms_ |-> Append(collection.terms_, term),
          termNameMap_ |-> collection.termNameMap_ @@ (name :> Len(collection.terms_)),
          threw |-> "none"]

\* add whose indices count from the new size
add_IndexAfterPush(collection, name, term) ==
    IF name \in DOMAIN collection.termNameMap_
    THEN [terms_ |-> collection.terms_, termNameMap_ |-> collection.termNameMap_,
          threw |-> "std::runtime_error"]
    ELSE [terms_ |-> Append(collection.terms_, term),
          termNameMap_ |-> collection.termNameMap_ @@ (name :> Len(collection.terms_) + 1),
          threw |-> "none"]

\* Collection<T>::add(name, term): emplace does nothing when the name
\* exists, and add then throws
add(collection, name, term) ==
    LET nextIndex == Len(collection.terms_)
        inserted == ~(name \in DOMAIN collection.termNameMap_)
    IN IF inserted
       THEN [terms_ |-> Append(collection.terms_, term),
             termNameMap_ |-> collection.termNameMap_ @@ (name :> nextIndex),
             threw |-> "none"]
       ELSE [terms_ |-> collection.terms_,
             termNameMap_ |-> collection.termNameMap_,
             threw |-> "std::runtime_error"]

\* Collection<T>::get<Derived>(name): termNameMap_.at(name) throws for a
\* name that is not a key; dynamic_cast to a reference throws when the term
\* is not a Derived
get(collection, name, Derived) ==
    IF ~(name \in DOMAIN collection.termNameMap_)
    THEN [threw |-> "std::out_of_range", value |-> <<>>]
    ELSE LET costIndex == collection.termNameMap_[name]
             term == collection.terms_[costIndex + 1]
         IN IF IsA(term.type, Derived)
            THEN [threw |-> "none", value |-> <<term>>]
            ELSE [threw |-> "std::bad_cast", value |-> <<>>]

\* Collection<T>::empty()
empty(collection) == collection.terms_ = <<>>

\* Collection(const Collection& other): the name map is copied, each term
\* is cloned in order; the clones are new objects of the same type
Collection(other, firstAddress) ==
    [termNameMap_ |-> other.termNameMap_,
     terms_ |-> [i \in 1..Len(other.terms_) |->
                    [other.terms_[i] EXCEPT !.address = firstAddress + i]]]

\* this collection
This == [terms_ |-> terms_, termNameMap_ |-> termNameMap_]

\* the user calls add with a new term object
Add(name, type) ==
    /\ allocated < MaxObjects
    /\ LET term == [address |-> allocated + 1, type |-> type]
           r == add(This, name, term)
       IN /\ terms_' = r.terms_
          /\ termNameMap_' = r.termNameMap_
          /\ outcome' = [call |-> "add", name |-> name, threw |-> r.threw, value |-> <<>>]
          /\ added' = IF r.threw = "none"
                      THEN Append(added, [name |-> name, term |-> term])
                      ELSE added
    /\ allocated' = allocated + 1
    /\ UNCHANGED <<solverVars, sweepVars, envVars, copy>>

\* the user calls get<Derived>
Get(name, Derived) ==
    /\ LET r == get(This, name, Derived)
       IN outcome' = [call |-> "get", name |-> name, threw |-> r.threw, value |-> r.value]
    /\ UNCHANGED <<solverVars, sweepVars, envVars, terms_, termNameMap_, copy, added, allocated>>

\* the user calls clone()
Clone ==
    /\ allocated + Len(terms_) <= MaxObjects
    /\ copy' = Collection(This, allocated)
    /\ allocated' = allocated + Len(terms_)
    /\ outcome' = [call |-> "clone", name |-> "", threw |-> "none", value |-> <<>>]
    /\ UNCHANGED <<solverVars, sweepVars, envVars, terms_, termNameMap_, added>>

CollectionSpecInit ==
    /\ Unconstructed
    /\ SweepIdle
    /\ referenceManager = [eventTimes |-> <<>>]
    /\ runArgs = NoArgs
    /\ environment = FreeEnvironment
    /\ history = NoHistory
    /\ CollectionInit

CollectionNext ==
    \/ \E name \in NameSet, type \in TermTypeSet : Add(name, type)
    \/ \E name \in NameSet, Derived \in TermTypeSet : Get(name, Derived)
    \/ Clone

CollectionSpec == CollectionSpecInit /\ [][CollectionNext]_vars

\* C19: add with a name that is in the collection throws and leaves the
\* collection as it was; get with a name that is not in the collection
\* throws and leaves the collection as it was.
C19_FailedCallChangesNothing ==
    [][/\ (outcome'.call = "add" /\ outcome'.name \in DOMAIN termNameMap_) =>
              /\ outcome'.threw = "std::runtime_error"
              /\ UNCHANGED <<terms_, termNameMap_, copy, added>>
       /\ (outcome'.call = "get" /\ ~(outcome'.name \in DOMAIN termNameMap_)) =>
              /\ outcome'.threw = "std::out_of_range"
              /\ outcome'.value = <<>>
              /\ UNCHANGED <<terms_, termNameMap_, copy, added>>
      ]_vars

\* C19 witness: a get of an unknown name has thrown on a collection with
\* two terms, after an add of a duplicate name had thrown
C19_Witness ==
    /\ outcome.call = "get"
    /\ outcome.threw = "std::out_of_range"
    /\ Len(terms_) = 2
    /\ allocated > Len(added)
    /\ copy = NoCollection

\* C20: the name map is a bijection between the names of the adds that
\* returned and the indices 0 .. size-1; terms_ holds the terms in the order
\* of these adds; get of a name returns the term added under it; empty()
\* holds exactly when no add has returned; right after clone() the copy has
\* the same name map and, at each position, a new object of the same type.
C20_NamesIndexTerms ==
    /\ Len(terms_) = Len(added)
    /\ DOMAIN termNameMap_ = { added[i].name : i \in DOMAIN added }
    /\ { termNameMap_[name] : name \in DOMAIN termNameMap_ } = 0..(Len(terms_) - 1)
    /\ \A i, j \in DOMAIN added : added[i].name = added[j].name => i = j
    /\ \A i \in DOMAIN added :
          /\ termNameMap_[added[i].name] = i - 1
          /\ terms_[i] = added[i].term
          /\ get(This, added[i].name, "T") = [threw |-> "none", value |-> <<added[i].term>>]
    /\ empty(This) <=> added = <<>>
    /\ outcome.call = "clone" =>
          /\ copy.termNameMap_ = termNameMap_
          /\ Len(copy.terms_) = Len(terms_)
          /\ \A i \in DOMAIN terms_ :
                /\ copy.terms_[i].type = terms_[i].type
                /\ \A j \in DOMAIN terms_ : copy.terms_[i].address # terms_[j].address

\* C20 witness: three terms were added, an add in between failed, and the
\* collection was then cloned
C20_Witness ==
    /\ outcome.call = "clone"
    /\ Len(terms_) = 3
    /\ allocated = 7
    /\ terms_[3].type = "Derived"
    /\ Len(copy.terms_) = 3

\* ------------------------------------------------------------------------
\* Runs without reset on horizons shifted forward (specification
\* WarmStartSpec): the QP solver never fails, the user may set a new mode
\* schedule between two runs
\* ------------------------------------------------------------------------

\* the deterministic environments whose QP solver returns SUCCESS for every
\* subproblem
SucceedingEnvironmentSet ==
    { [env EXCEPT !.failure = "SUCCESS"] : env \in { e \in EnvironmentSet : e.failFrom = 99 } }

WarmStartInit ==
    /\ Unconstructed
    /\ SweepIdle
    /\ CollectionInit
    /\ referenceManager \in [eventTimes : EventTimesSet]
    /\ runArgs = NoArgs
    /\ environment \in SucceedingEnvironmentSet
    /\ history = NoHistory

\* the user sets the mode schedule of the reference manager between runs
setModeScheduleBetweenRuns(eventTimes) ==
    /\ pc = "done"
    /\ Len(history.runs) + 1 < MaxRuns
    /\ eventTimes # referenceManager.eventTimes
    /\ referenceManager' = [referenceManager EXCEPT !.eventTimes = eventTimes]
    /\ UNCHANGED <<solverVars, sweepVars, collectionVars, runArgs, environment, history>>

\* the initial states of the runs of a receding horizon
InitStateSet == { <<0>>, <<1>> }

WarmStartNext ==
    \/ \E settings \in { s \in UserSettingsSet : s.nThreads >= 1 } : Construct(settings)
    \/ \E finalTime \in 1..MaxFinalTime : Run(finalTime)
    \/ \E initTime \in 0..MaxFinalTime, finalTime \in 1..MaxFinalTime :
          /\ initTime >= runArgs.initTime
          /\ initTime < finalTime
          /\ \E state0 \in InitStateSet : Rerun(initTime, state0, finalTime)
    \/ \E eventTimes \in EventTimesSet : setModeScheduleBetweenRuns(eventTimes)
    \/ SetupQuadraticSubproblem
    \/ SolveQP
    \/ LineSearchTrial
    \/ EndIteration
    \/ SetPrimalSolution

WarmStartSpec == WarmStartInit /\ [][WarmStartNext]_vars

\* the initial trajectories of a run fit the time grid: N+1 states and N
\* inputs, every state and every input of a node that is not an event node
\* has its dimension, an event node has the empty input
TrajectoriesFitGrid ==
    /\ Len(x) = Len(timeDiscretization)
    /\ Len(u) = Len(timeDiscretization) - 1
    /\ \A i \in DOMAIN x : Len(x[i]) = 1
    /\ \A i \in DOMAIN u :
          Len(u[i]) = IF timeDiscretization[i].event = "PreEvent" THEN 0 ELSE 1

C22_DecreasingTrials ==
    [][/\ (pc = "solve" /\ pc' = "linesearch") => (alpha' = One /\ ~trial'.tried)
       /\ pc = "linesearch" =>
             LET dx == deltaSolution.deltaXSol
                 du == deltaSolution.deltaUSol
             IN /\ trial'.tried /\ trial'.alpha = alpha
                /\ ~trial.tried => alpha = One
                /\ trial.tried => (~trial.stepAccepted /\ alpha < trial.alpha)
                /\ pc' = "linesearch" =>
                      /\ ~trial'.stepAccepted
                      /\ alpha' * One <= alpha * settings_.alpha_decay
                      /\ (alpha' + 1) * One > alpha * settings_.alpha_decay
                      /\ alpha' < alpha
                /\ trial'.stepAccepted =>
                      /\ pc' = "returned"
                      /\ Len(x') = Len(x) /\ Len(u') = Len(u)
                      /\ \A i \in DOMAIN x :
                            x'[i] = <<x[i][1] + (alpha * dx[i][1]) \div One>>
                      /\ \A i \in DOMAIN u :
                            u'[i] = IF du[i] = <<>> THEN <<>>
                                    ELSE <<u[i][1] + (alpha * du[i][1]) \div One>>
                /\ ~trial'.stepAccepted => (x' = x /\ u' = u)
       /\ pc = "returned" => (~trial'.tried /\ x' = x /\ u' = u)
      ]_vars

\* C22 witness: after a rejected trial at alpha = 1 the trial at
\* alpha_decay was accepted on a grid with an event node, whose input is
\* empty
C22_Witness ==
    /\ pc = "returned"
    /\ trial.stepAccepted
    /\ trial.alpha = settings_.alpha_decay
    /\ trial.alpha < One
    /\ \E i \in DOMAIN u : timeDiscretization[i].event = "PreEvent" /\ u[i] = <<>>
    /\ \E i \in DOMAIN x : x[i] # <<0>>

\* C23: with 0 < alpha_decay < 1 and alpha_min > 0 the line search makes a
\* bounded number of trials: the first is at alpha = 1 whatever alpha_min
\* is, every later one is at a smaller alpha that is greater than alpha_min,
\* and the line search ends exactly at a trial that is accepted, or that is
\* rejected with both scaled step norms below deltaTol, or after which
\* alpha * alpha_decay <= alpha_min.
C23_LineSearchEnds ==
    [][/\ (pc = "solve" /\ pc' = "linesearch") => alpha' = One
       /\ (pc = "linesearch" /\ 0 < settings_.alpha_decay /\ settings_.alpha_decay < One
             /\ settings_.alpha_min > 0) =>
             LET deltaUnorm == trajectoryNorm(deltaSolution.deltaUSol)
                 deltaXnorm == trajectoryNorm(deltaSolution.deltaXSol)
                 belowTol == /\ alpha * deltaUnorm < settings_.deltaTol * One
                             /\ alpha * deltaXnorm < settings_.deltaTol * One
                 decayed == (alpha * settings_.alpha_decay) \div One
             IN /\ 0 < alpha /\ alpha <= One
                /\ trial.tried => (alpha > settings_.alpha_min /\ alpha < trial.alpha)
                /\ pc' \in {"linesearch", "returned"}
                /\ pc' = "returned" <=>
                      \/ trial'.stepAccepted
                      \/ belowTol
                      \/ decayed <= settings_.alpha_min
                /\ pc' = "linesearch" => (alpha' = decayed /\ alpha' < alpha)
      ]_vars

\* C23 witness: with alpha_min = 1 the only trial, at alpha = 1, was
\* rejected with a step that is not small, and the line search has ended
C23_Witness ==
    /\ pc = "returned"
    /\ settings_.alpha_min >= One
    /\ trial.tried /\ trial.alpha = One
    /\ ~trial.stepAccepted
    /\ ~(One * trajectoryNorm(deltaSolution.deltaXSol) < settings_.deltaTol * One)

\* ------------------------------------------------------------------------
\* getOCPSolution
\* ------------------------------------------------------------------------

\* the input step the deterministic QP solver returns for node i (from 0)
QpInputStep(i) ==
    IF IsEventNode(timeDiscretization, i) THEN <<>> ELSE <<environment.e>>

\* C24: the QP solver is given the stage equality constraints exactly when
\* the equality-constraint collection is not empty and projection is
\* disabled; with projection enabled the input step of every node that has
\* a projection is P_u * du_tilde + p0 + P_x * dx and that of a node without
\* one (an event node) is what the QP solver returned; with projection
\* disabled every input step is what the QP solver returned.
C24_QpConstraintsAndExpansion ==
    settings_.nThreads >= 1 =>
        /\ hpipmInterface_.constraints # "unset" =>
              (hpipmInterface_.constraints = "constraints_" <=>
                  (/\ ~environment.optimalControlProblem.equalityConstraintEmpty
                   /\ ~settings_.projectStateInputEqualityConstraints))
        /\ pc = "linesearch" =>
              \A i \in DOMAIN deltaSolution.deltaUSol :
                 LET P == constraintsProjection_[i]
                     dx == deltaSolution.deltaXSol[i]
                     du == deltaSolution.deltaUSol[i]
                 IN IF settings_.projectStateInputEqualityConstraints /\ P.f # <<>>
                    THEN du = <<P.dfdu * QpInputStep(i - 1)[1] + P.f[1] + P.dfdx * dx[1]>>
                    ELSE du = QpInputStep(i - 1)

\* C24 witness: with projection enabled and equality constraints present the
\* QP was solved without constraints on a grid with an event node, and the
\* input step of a node with a projection differs from the QP solver's
C24_Witness ==
    /\ pc = "linesearch"
    /\ settings_.nThreads >= 1
    /\ settings_.projectStateInputEqualityConstraints
    /\ ~environment.optimalControlProblem.equalityConstraintEmpty
    /\ hpipmInterface_.constraints = "nullptr"
    /\ \E i \in DOMAIN deltaSolution.deltaUSol : deltaSolution.deltaUSol[i] = <<>>
    /\ \E i \in DOMAIN deltaSolution.deltaUSol :
          /\ constraintsProjection_[i].f # <<>>
          /\ deltaSolution.deltaUSol[i] # QpInputStep(i - 1)

\* gradient(cost)' * [dx; du] for the input steps du, written out
DescentOf(du) ==
    SumSeq([i \in 1..Len(cost_) |->
              (IF cost_[i].dfdx # <<>>
               THEN cost_[i].dfdx[1] * deltaSolution.deltaXSol[i][1] ELSE 0)
            + (IF cost_[i].dfdu # <<>> THEN cost_[i].dfdu[1] * du[i][1] ELSE 0)])

\* C25 as stated: with projection enabled the Armijo descent metric is the
\* sum of grad_x C_i . dx_i + grad_u C_i . du_i over the nodes with du_i the
\* expanded input step.
C25_MetricOfExpandedStep ==
    (pc = "linesearch" /\ settings_.nThreads >= 1
        /\ settings_.projectStateInputEqualityConstraints) =>
        deltaSolution.armijoDescentMetric = DescentOf(deltaSolution.deltaUSol)

\* C25 as amended: with projection enabled the Armijo descent metric is the
\* sum of grad_x C_i . dx_i + grad_u C_i . du_tilde_i over the nodes, with
\* du_tilde_i the input step the QP solver returned, before the expansion.
C25_MetricOfProjectedStep ==
    (pc = "linesearch" /\ settings_.nThreads >= 1
        /\ settings_.projectStateInputEqualityConstraints) =>
        deltaSolution.armijoDescentMetric =
            DescentOf([i \in DOMAIN deltaSolution.deltaUSol |-> QpInputStep(i - 1)])

\* C25 witness: projection is enabled, the expansion changed the input step
\* of a node, and the metric is not the one of the expanded step
C25_Witness ==
    /\ pc = "linesearch"
    /\ settings_.nThreads >= 1
    /\ settings_.projectStateInputEqualityConstraints
    /\ \E i \in DOMAIN deltaSolution.deltaUSol :
          deltaSolution.deltaUSol[i] # QpInputStep(i - 1)
    /\ deltaSolution.armijoDescentMetric # DescentOf(deltaSolution.deltaUSol)
    /\ deltaSolution.armijoDescentMetric # 0

\* ------------------------------------------------------------------------
\* The merit of a PerformanceIndex
\* ------------------------------------------------------------------------

\* the PerformanceIndex values the solver holds: the baseline of the
\* iteration, the trial of the line search, the result of takeStep and the
\* entries of the log
ProducedPerformance ==
    (IF pc \in {"solve", "linesearch", "returned"} THEN {baselinePerformance} ELSE {})
    \cup (IF trial.tried THEN {trial.performanceNew} ELSE {})
    \cup (IF stepInfo.returned THEN {stepInfo.performance} ELSE {})
    \cup { performanceIndeces_[k] : k \in DOMAIN performanceIndeces_ }

EqualityISE(p) == p.stateEqConstraintISE + p.stateInputEqConstraintISE

\* C26 as stated: the merit contains a penalty for the equality-constraint
\* violations, so that of a baseline and a trial with the same cost and the
\* same inequality penalty the one with the greater equality-constraint ISEs
\* has the greater merit.
C26_MeritGrowsWithViolation ==
    (/\ pc \in {"linesearch", "returned"}
     /\ trial.tried
     /\ trial.performanceNew.totalCost = baselinePerformance.totalCost
     /\ trial.performanceNew.inequalityConstraintPenalty =
            baselinePerformance.inequalityConstraintPenalty
     /\ EqualityISE(trial.performanceNew) > EqualityISE(baselinePerformance)) =>
        trial.performanceNew.merit > baselinePerformance.merit

\* C26 as amended: the merit of every PerformanceIndex the solver produces
\* is totalCost + inequalityConstraintPenalty; the equality-constraint ISEs
\* are not part of it.
C26_MeritIsCostPlusPenalty ==
    \A p \in ProducedPerformance :
        p.merit = p.totalCost + p.inequalityConstraintPenalty

\* C26 witness: a trial has greater equality-constraint ISEs than the
\* baseline, the same cost and inequality penalty, and the same merit
C26_Witness ==
    /\ pc = "returned"
    /\ trial.tried
    /\ trial.performanceNew.totalCost = baselinePerformance.totalCost
    /\ trial.performanceNew.inequalityConstraintPenalty =
           baselinePerformance.inequalityConstraintPenalty
    /\ EqualityISE(trial.performanceNew) > EqualityISE(baselinePerformance)
    /\ trial.performanceNew.merit = baselinePerformance.merit
    /\ baselinePerformance.merit > 0

\* ------------------------------------------------------------------------
\* The warm start of initializeStateInputTrajectories
\* ------------------------------------------------------------------------

\* node i (from 0) of the grid is to be initialized from the previous primal
\* solution
FromPreviousSolution(i) ==
    /\ totalNumIterations_ > 0
    /\ primalSolution_.timeTrajectory_ # <<>>
    /\ timeDiscretization[i + 1].time < Last(primalSolution_.timeTrajectory_)

\* C27: every run starts from trajectories with N+1 states and N inputs and
\* x[0] = initState, in which an event node has the empty input, a node that
\* is not an event node is initialized from the previous primal solution
\* exactly when an iteration has been executed since construction or the
\* last reset and the node's time is less than the last time of the previous
\* solution, and from the initializer otherwise, and the previous controller
\* is used for node 0 only.
C27_WarmStartRule ==
    settings_.nThreads >= 1 =>
        /\ pc # "crashed"
        /\ (pc = "iterate" /\ iter = 0) =>
              /\ TrajectoriesFitGrid
              /\ x[1] = initState
              /\ \A i \in 0..(Len(u) - 1) :
                    LET time == timeDiscretization[i + 1].time
                        nextTime == timeDiscretization[i + 2].time
                        sol == primalSolution_
                    IN IF timeDiscretization[i + 1].event = "PreEvent"
                       THEN u[i + 1] = <<>> /\ x[i + 2] = x[i + 1]
                       ELSE IF FromPreviousSolution(i)
                       THEN /\ x[i + 2] = InterpolateAt(nextTime, sol.timeTrajectory_,
                                                        sol.stateTrajectory_)
                            /\ u[i + 1] = IF i = 0
                                          THEN ComputeInput(sol, time, x[i + 1])
                                          ELSE InterpolateAt(time, sol.timeTrajectory_,
                                                             sol.inputTrajectory_)
                       ELSE u[i + 1] = <<0>> /\ x[i + 2] = x[i + 1]


\* ------------------------------------------------------------------------
\* The first state of the iterate
\* ------------------------------------------------------------------------

\* the run is between its initialization and its return
InRun == pc \in {"iterate", "solve", "linesearch", "returned"}

\* C28: throughout a run the first state of the iterate is initState, after
\* the initialization and after every accepted step of the line search; the
\* QP solver is therefore given delta_x0 = 0 in every iteration, and the
\* defect of the initial state adds nothing to stateEqConstraintISE (with
\* user functions whose own stateEqConstraintISE is zero, every performance
\* index of the run has stateEqConstraintISE = 0).
C28_FirstStateIsInitState ==
    /\ InRun => x[1] = initState
    /\ pc \in {"linesearch", "returned"} => deltaSolution.deltaXSol[1] = <<0>>
    /\ InRun => \A p \in ProducedPerformance : p.stateEqConstraintISE = 0

\* C28 witness: a warm-started run from an initial state that differs from
\* the first state of the stored solution has accepted a step that moves
\* the other states
C28_Witness ==
    /\ pc = "returned"
    /\ trial.stepAccepted
    /\ totalNumIterations_ > 1
    /\ primalSolution_.stateTrajectory_ # <<>>
    /\ primalSolution_.stateTrajectory_[1] # initState
    /\ x[1] = initState
    /\ \E i \in DOMAIN deltaSolution.deltaXSol : deltaSolution.deltaXSol[i] # <<0>>

\* ------------------------------------------------------------------------
\* The iteration log
\* ------------------------------------------------------------------------

\* a getIterationsLog that throws when no primal solution is stored
getIterationsLog_ThrowsWithoutSolution ==
    IF primalSolution_.timeTrajectory_ = <<>>
    THEN [threw |-> TRUE, value |-> <<>>]
    ELSE [threw |-> FALSE, value |-> performanceIndeces_]

\* getIterationsLog(): throws std::runtime_error when the log is empty
getIterationsLog ==
    IF performanceIndeces_ = <<>>
    THEN [threw |-> TRUE, value |-> <<>>]
    ELSE [threw |-> FALSE, value |-> performanceIndeces_]

\* C29: the iteration log is cleared when a run starts and gets exactly one
\* entry, the performance takeStep returned, with every counted SQP
\* iteration and is changed by nothing else but reset(); after a run that
\* returned with sqpIteration >= 1 getIterationsLog returns the log, whose
\* length is between 1 and sqpIteration; getIterationsLog throws after the
\* construction, after reset() and after a run that threw in its first
\* iteration, whatever primal solution is stored, and returns the entries of
\* a run that threw in a later iteration.
C29_IterationLog ==
    [][/\ (pc \in {"idle", "done", "threw"} /\ pc' = "iterate") =>
              performanceIndeces_' = <<>> /\ getIterationsLog'.threw
       /\ (pc \in {"iterate", "solve", "linesearch", "returned"}) =>
              /\ Len(performanceIndeces_) = iter
              /\ IF pc = "returned"
                 THEN /\ performanceIndeces_' = Append(performanceIndeces_, stepInfo.performance)
                      /\ totalNumIterations_' = totalNumIterations_ + 1
                 ELSE /\ performanceIndeces_' = performanceIndeces_
                      /\ totalNumIterations_' = totalNumIterations_
       /\ (pc' = "done" /\ settings_.sqpIteration >= 1) =>
              /\ ~getIterationsLog'.threw
              /\ getIterationsLog'.value = performanceIndeces_'
              /\ Len(getIterationsLog'.value) \in 1..settings_.sqpIteration
       /\ pc' = "idle" => getIterationsLog'.threw
       /\ pc' = "threw" =>
              /\ getIterationsLog'.threw <=> iter' = 0
              /\ Len(getIterationsLog'.value) = iter'
      ]_vars

\* C29 witness: a run threw in its first iteration while the primal solution
\* of an earlier run is stored; the log is empty
C29_Witness ==
    /\ pc = "threw"
    /\ iter = 0
    /\ primalSolution_.timeTrajectory_ # <<>>
    /\ history.runs # <<>>
    /\ Last(history.runs).log # <<>>
    /\ getIterationsLog.threw

\* ------------------------------------------------------------------------
\* The iteration without an accepted step
\* ------------------------------------------------------------------------

\* C30: an SQP iteration whose line search accepted no step is the last of
\* its run: takeStep reports convergence with the baseline performance,
\* which is the entry logged, the loop is left, and the iterate, which only
\* an accepted trial changes, goes to setPrimalSolution as it was before the
\* iteration; an iteration after which the loop goes on has accepted a step
\* and logged that step's performance.
C30_StalledIterationIsLast ==
    [][/\ (pc = "returned" /\ ~trial.stepAccepted) =>
              /\ stepInfo.converged
              /\ stepInfo.performance = baselinePerformance
              /\ pc' = "finish"
              /\ Last(performanceIndeces_') = baselinePerformance
              /\ x' = x /\ u' = u
       /\ (pc \in {"iterate", "solve", "linesearch", "returned"}
             /\ ~(pc = "linesearch" /\ trial'.stepAccepted)) =>
              x' = x /\ u' = u
       /\ (pc = "finish" /\ pc' = "done") => primalSolution_'.stateTrajectory_ = x
       /\ (pc = "returned" /\ pc' = "iterate") =>
              /\ trial.stepAccepted
              /\ Last(performanceIndeces_') = trial.performanceNew
      ]_vars

\* C30 witness: an iteration that is not the last the iteration bound
\* allows ended without an accepted step after a trial at a reduced step
\* size, the last trial having a performance other than the baseline
C30_Witness ==
    /\ pc = "returned"
    /\ trial.tried /\ ~trial.stepAccepted
    /\ trial.alpha < One
    /\ iter + 1 < settings_.sqpIteration
    /\ trial.performanceNew # baselinePerformance
    /\ stepInfo.performance = baselinePerformance
=============================================================================
